---- MODULE Spec2Model ----
(***************************************************************************)
(* A model of the MarkovSuggestor analysis pipeline:                       *)
(*   - the co-occurrence predictor of observer.py (sequential and with     *)
(*     two threads),                                                       *)
(*   - the intent classifier of core/markov.py and the intent section of   *)
(*     core/pseudocode_generator.py,                                       *)
(*   - the semantic matcher of embedder.py and sublimePlugin/              *)
(*     embedderSublime.py.                                                 *)
(*                                                                         *)
(* Numbers.  Python floats are modelled exactly, as rationals:             *)
(*   - co-occurrence weights are integers in hundredths (0.1 is 10);       *)
(*   - a probability table is a matrix of integer numerators over one      *)
(*     denominator;                                                        *)
(*   - a cosine similarity is kept as the pair (dot, |a|^2 * |b|^2).       *)
(* Rounding of binary floating point is outside the model.                 *)
(***************************************************************************)
EXTENDS Integers, Sequences, FiniteSets, TLC

VARIABLES
    function_cooccurrence,  \* observer.py:48, dict name -> Counter (insertion ordered)
    observed,               \* history: adjacencies handed to observe so far, per (f, g)
    lastCall,               \* history: the last operation, its arguments and its result
    threads,                \* per thread inside learn_from_observed_lines: the calls of
                            \* update_cooccurrence still to make, and the weight it loaded
    hmm,                    \* core/markov.py: the HiddenMarkovModel object
    explain,                \* the last explain_code: its tokens, the classifier's result
                            \* and the explanation made from it
    embedder,               \* a FunctionEmbedder object: function_database, embeddings
    similar,                \* history: the last find_similar_functions and its outcome
    pipeline,               \* core/codeExplainer.py: the last explain_code, from the source
                            \* text to the explanation
    heavy,                  \* code_explainer_heavy.py: the process, its CodeExplainer and
                            \* its last two explain_code runs
    generator,              \* core/pseudocode_generator.py: a PseudocodeGenerator object,
                            \* and its last generate_explanation
    host,                   \* the editor's process: the plugin's EXPLAINER global, the
                            \* embedding models constructed and databases loaded for it
    decoded,                \* markov.py: the last HiddenMarkovModel.emit, its arguments and
                            \* the hidden states it returned
    disk,                   \* embedder.py: the database file save_database writes and
                            \* load_database reads
    bridge                  \* CodeSuggester.py: the explanation views, the jobs of the
                            \* async thread, the venv process and the callbacks queued
                            \* for the main thread

vars == <<function_cooccurrence, observed, lastCall, threads, hmm, explain,
          embedder, similar, pipeline, heavy, generator, host, decoded, disk, bridge>>

----------------------------------------------------------------------------
(* Generic helpers                                                         *)

RECURSIVE SumSeq(_)
SumSeq(s) == IF s = <<>> THEN 0 ELSE Head(s) + SumSeq(Tail(s))

RECURSIVE SeqsUpTo(_, _)
SeqsUpTo(S, n) ==
    IF n = 0 THEN {<<>>}
    ELSE LET shorter == SeqsUpTo(S, n - 1)
         IN  shorter \cup {Append(s, x) : s \in shorter, x \in S}

RemoveAt(s, i) == [k \in 1..(Len(s) - 1) |-> IF k < i THEN s[k] ELSE s[k + 1]]

Reverse(s) == [k \in 1..Len(s) |-> s[Len(s) + 1 - k]]

----------------------------------------------------------------------------
(* observer.py: tokens.  A token is a string; the model keeps it as the    *)
(* sequence of its pieces: <<"IMPORT">>, <<"FUNC:">> (the marker with an   *)
(* empty name), <<"FUNC:", "a">>.                                          *)

FUNC_MARK == "FUNC:"

FuncToken(name) == IF name = "" THEN <<FUNC_MARK>> ELSE <<FUNC_MARK, name>>

\* t.startswith("FUNC:")
startswith_FUNC(t) == Len(t) >= 1 /\ t[1] = FUNC_MARK

\* t.split("FUNC:", 1)[1]: the text after the marker, "" when nothing follows
split_FUNC(t) == IF Len(t) >= 2 THEN t[2] ELSE ""

\* [t.split("FUNC:",1)[1] for t in obs if t.startswith("FUNC:")]
RECURSIVE funcs_of(_)
funcs_of(obs) ==
    IF obs = <<>> THEN <<>>
    ELSE IF startswith_FUNC(Head(obs))
         THEN <<split_FUNC(Head(obs))>> \o funcs_of(Tail(obs))
         ELSE funcs_of(Tail(obs))

----------------------------------------------------------------------------
(* observer.py: the co-occurrence table                                    *)

COOCCURRENCE_LEARNING_RATE == 10

MIN_SUGGESTION_SCORE == 1

WINDOW == 3

\* Counter.__getitem__ / __missing__: the weight of (f, g), 0 when absent
RowWeight(row, g) ==
    IF \E i \in 1..Len(row) : row[i].fn = g
    THEN LET i == CHOOSE i \in 1..Len(row) : row[i].fn = g IN row[i].w
    ELSE 0

Weight(table, f, g) == IF f \in DOMAIN table THEN RowWeight(table[f], g) ELSE 0

\* Counter.__setitem__: an existing key keeps its place, a new key goes last
RowStore(row, g, w) ==
    IF \E i \in 1..Len(row) : row[i].fn = g
    THEN LET i == CHOOSE i \in 1..Len(row) : row[i].fn = g
         IN  [row EXCEPT ![i] = [fn |-> g, w |-> w]]
    ELSE Append(row, [fn |-> g, w |-> w])

TableStore(table, f, row) ==
    [x \in (DOMAIN table) \cup {f} |-> IF x = f THEN row ELSE table[x]]

update_cooccurrence(table, prev_func, next_func, lr) ==
    IF prev_func = "" \/ next_func = "" THEN table
    ELSE LET row == IF prev_func \in DOMAIN table THEN table[prev_func] ELSE <<>>
         IN  TableStore(table, prev_func,
                        RowStore(row, next_func, RowWeight(row, next_func) + lr))

\* The calls update_cooccurrence(func, nf) that learn_from_observed_lines makes,
\* in the order it makes them: for i, for func in funcs, for j, for nf.
RECURSIVE PairWith(_, _)
PairWith(func, next_funcs) ==
    IF next_funcs = <<>> THEN <<>>
    ELSE <<<<func, Head(next_funcs)>>>> \o PairWith(func, Tail(next_funcs))

RECURSIVE LookAhead(_, _, _, _)
LookAhead(observed_lines, func, j, stop) ==
    IF j >= stop THEN <<>>
    ELSE PairWith(func, funcs_of(observed_lines[j]))
         \o LookAhead(observed_lines, func, j + 1, stop)

Min(a, b) == IF a <= b THEN a ELSE b

RECURSIVE ForFuncs_wide(_, _, _)
ForFuncs_wide(observed_lines, funcs, i) ==
    IF funcs = <<>> THEN <<>>
    ELSE LookAhead(observed_lines, Head(funcs), i + 1,
                   Min(i + 2 + WINDOW, Len(observed_lines) + 1))
         \o ForFuncs_wide(observed_lines, Tail(funcs), i)

RECURSIVE ForFuncs(_, _, _)
ForFuncs(observed_lines, funcs, i) ==
    IF funcs = <<>> THEN <<>>
    ELSE LookAhead(observed_lines, Head(funcs), i + 1,
                   Min(i + 1 + WINDOW, Len(observed_lines) + 1))
         \o ForFuncs(observed_lines, Tail(funcs), i)

RECURSIVE UpdateCalls(_, _)
UpdateCalls(observed_lines, i) ==
    IF i > Len(observed_lines) THEN <<>>
    ELSE ForFuncs(observed_lines, funcs_of(observed_lines[i]), i)
         \o UpdateCalls(observed_lines, i + 1)

\* The calls applied to the table one after the other, in their order: those of
\* the first half, then those of the second half on the table the first left
RECURSIVE ApplyUpdates(_, _)
ApplyUpdates(table, calls) ==
    IF calls = <<>> THEN table
    ELSE IF Len(calls) = 1
         THEN update_cooccurrence(table, calls[1][1], calls[1][2],
                                  COOCCURRENCE_LEARNING_RATE)
         ELSE CHOOSE r \in {ApplyUpdates(t, SubSeq(c, Len(c) \div 2 + 1, Len(c))) :
                               t \in {ApplyUpdates(table, SubSeq(calls, 1, Len(calls) \div 2))},
                               c \in {calls}} : TRUE

learn_from_observed_lines(table, observed_lines) ==
    ApplyUpdates(table, UpdateCalls(observed_lines, 1))

----------------------------------------------------------------------------
(* observer.py: suggestions.  A score is the rational num / den; eps marks *)
(* the 1e-9 that get_cooccurrence_suggestions adds to the denominator.     *)

Score(num, den, eps) == [num |-> num, den |-> den, eps |-> eps]

\* max(count / (total + 1e-9), MIN_SUGGESTION_SCORE), weights in hundredths:
\* count / (total + eps) < 1/100 exactly when 100 * count <= total
FlooredScore(count, total) ==
    IF 100 * count <= MIN_SUGGESTION_SCORE * total
    THEN Score(MIN_SUGGESTION_SCORE, 100, FALSE)
    ELSE Score(count, total, TRUE)

RECURSIVE most_common_short(_, _)
most_common_short(row, n) ==
    IF n <= 1 \/ row = <<>> THEN <<>>
    ELSE LET best == CHOOSE i \in 1..Len(row) :
                        /\ \A k \in 1..Len(row) : row[k].w <= row[i].w
                        /\ \A k \in 1..(i - 1) : row[k].w < row[i].w
         IN  <<row[best]>> \o most_common_short(RemoveAt(row, best), n - 1)

\* Counter.most_common(n): the n heaviest entries, heaviest first, entries of
\* equal weight in insertion order; nothing for n <= 0
RECURSIVE most_common(_, _)
most_common(row, n) ==
    IF n <= 0 \/ row = <<>> THEN <<>>
    ELSE LET best == CHOOSE i \in 1..Len(row) :
                        /\ \A k \in 1..Len(row) : row[k].w <= row[i].w
                        /\ \A k \in 1..(i - 1) : row[k].w < row[i].w
         IN  <<row[best]>> \o most_common(RemoveAt(row, best), n - 1)

RowTotal(row) == SumSeq([i \in 1..Len(row) |-> row[i].w])

get_cooccurrence_suggestions(table, prev_func, top_k) ==
    IF prev_func \notin DOMAIN table THEN <<>>
    ELSE LET counter == table[prev_func]
             total   == RowTotal(counter)
             ranked  == most_common(counter, top_k)
         IN  [i \in 1..Len(ranked) |->
                [function |-> ranked[i].fn,
                 score    |-> FlooredScore(ranked[i].w, total)]]

\* function_cooccurrence[key] on a defaultdict(Counter): a key it does not
\* hold is stored with an empty Counter
defaultdict_getitem(table, key) ==
    IF key \in DOMAIN table THEN table ELSE TableStore(table, key, <<>>)

\* A lookup that indexes the table without asking first whether it holds the key
TableAfterLookup_unguarded(table, prev_func) == defaultdict_getitem(table, prev_func)

\* The table after get_cooccurrence_suggestions: the row is taken with
\* function_cooccurrence[prev_func] only when prev_func is in the table
TableAfterLookup(table, prev_func) ==
    IF prev_func \notin DOMAIN table THEN table
    ELSE defaultdict_getitem(table, prev_func)

FALLBACK ==
    << [function |-> "os.listdir",   score |-> Score(20, 100, FALSE)],
       [function |-> "os.path.join", score |-> Score(15, 100, FALSE)] >>

\* for token in reversed(recent_tokens): the first FUNC token ends the search,
\* also when its name is empty
RECURSIVE last_func_of(_)
last_func_of(reversed_tokens) ==
    IF reversed_tokens = <<>> THEN ""
    ELSE IF startswith_FUNC(Head(reversed_tokens))
         THEN split_FUNC(Head(reversed_tokens))
         ELSE last_func_of(Tail(reversed_tokens))

predict_next_functions_nofallback(table, recent_tokens, top_k) ==
    LET last_func == last_func_of(Reverse(recent_tokens))
    IN  IF last_func # ""
        THEN get_cooccurrence_suggestions(table, last_func, top_k)
        ELSE <<>>

predict_next_functions(table, recent_tokens, top_k) ==
    LET last_func   == last_func_of(Reverse(recent_tokens))
        suggestions == IF last_func # ""
                       THEN get_cooccurrence_suggestions(table, last_func, top_k)
                       ELSE <<>>
    IN  IF suggestions = <<>> THEN FALLBACK ELSE suggestions

\* The table after predict_next_functions
TableAfterPredict(table, recent_tokens) ==
    IF last_func_of(Reverse(recent_tokens)) # ""
    THEN TableAfterLookup(table, last_func_of(Reverse(recent_tokens)))
    ELSE table

----------------------------------------------------------------------------
(* The predictor as a state machine: observe and suggest calls, one after  *)
(* the other, on the process-wide table.                                   *)

FuncNames == {"a", "b"}

AllNames == FuncNames \cup {""}

\* A weight is explored up to MaxCount increments
MaxCount == 4

MaxTopK == 2

\* The token lists one line can contribute
LineChoices ==
    { << <<"IMPORT">> >>,
      << FuncToken("a") >>,
      << FuncToken("b"), FuncToken(""), FuncToken("b") >> }

\* Enough lines to hold a pair inside the window and a pair beyond it
MaxLines == WINDOW + 2

ObserveInputs == SeqsUpTo(LineChoices, MaxLines)

ShortInputs == SeqsUpTo(LineChoices, 2)

RecentTokenLists ==
    { <<>>,
      << <<"IMPORT">> >>,
      << FuncToken("a") >>,
      << FuncToken("b"), <<"IMPORT">> >>,
      << FuncToken("a"), FuncToken("") >>,
      << FuncToken("never_seen") >> }

TopKs == (-1)..MaxTopK

\* The number of FUNC tokens for f in one line
RECURSIVE TokenCount(_, _)
TokenCount(line, f) ==
    IF line = <<>> THEN 0
    ELSE (IF Head(line) = <<FUNC_MARK, f>> THEN 1 ELSE 0) + TokenCount(Tail(line), f)

\* The number of adjacencies of (f, g) in L: positions i < j <= i + WINDOW,
\* a FUNC token for f in line i and one for g in line j, counted once for each
\* pair of tokens
RECURSIVE PairCountFrom(_, _, _, _, _)
PairCountFrom(L, f, g, i, j) ==
    IF i > Len(L) THEN 0
    ELSE IF j > Len(L) \/ j > i + WINDOW THEN PairCountFrom(L, f, g, i + 1, i + 2)
    ELSE TokenCount(L[i], f) * TokenCount(L[j], g) + PairCountFrom(L, f, g, i, j + 1)

PairCount(L, f, g) == PairCountFrom(L, f, g, 1, 2)

NoCall == [op |-> "none", tokens |-> <<>>, top_k |-> 0, result |-> <<>>]

WithinCap(table) ==
    \A f \in DOMAIN table : \A i \in 1..Len(table[f]) : table[f][i].w <= MaxCount * COOCCURRENCE_LEARNING_RATE

InitPredictor ==
    /\ bridge = <<>>
    /\ disk = <<>>
    /\ decoded = <<>>
    /\ host = <<>>
    /\ generator = <<>>
    /\ function_cooccurrence = <<>>
    /\ observed = [p \in FuncNames \X FuncNames |-> 0]
    /\ lastCall = NoCall
    /\ threads = <<>>
    /\ hmm = <<>>
    /\ explain = <<>>
    /\ embedder = <<>>
    /\ similar = <<>>
    /\ pipeline = <<>>
    /\ heavy = <<>>

Observe(inputs) ==
    \E L \in inputs :
        LET table == learn_from_observed_lines(function_cooccurrence, L)
        IN  /\ WithinCap(table)
            /\ function_cooccurrence' = table
            /\ observed' = [p \in FuncNames \X FuncNames |->
                               observed[p] + PairCount(L, p[1], p[2])]
            /\ lastCall' = [NoCall EXCEPT !.op = "observe"]
            /\ UNCHANGED <<threads, hmm, explain, embedder, similar, pipeline, heavy, generator, host, decoded, disk, bridge>>

Suggest ==
    \E recent_tokens \in RecentTokenLists, top_k \in TopKs :
        /\ lastCall' = [NoCall EXCEPT
                          !.op = "suggest", !.tokens = recent_tokens, !.top_k = top_k,
                          !.result = predict_next_functions(function_cooccurrence,
                                                            recent_tokens, top_k)]
        /\ function_cooccurrence' = TableAfterPredict(function_cooccurrence, recent_tokens)
        /\ UNCHANGED <<observed, threads, hmm, explain, embedder, similar, pipeline, heavy, generator, host, decoded, disk, bridge>>

LearnNext == Observe(ObserveInputs)

SpecLearn == InitPredictor /\ [][LearnNext]_vars

PredictorNext == Observe(ShortInputs) \/ Suggest

SpecPredictor == InitPredictor /\ [][PredictorNext]_vars

----------------------------------------------------------------------------
(* Threads inside learn_from_observed_lines on the shared table.  The code *)
(* takes no lock.  The statement                                           *)
(*     function_cooccurrence[prev_func][next_func] += lr                   *)
(* is a load (which makes defaultdict create a missing row, and runs       *)
(* Counter.__missing__ for a missing key), an add and a store; a thread    *)
(* switch can fall between the load and the store.  The creation of a      *)
(* missing row is taken as atomic here.                                    *)

NThreads == 2

Threads == 1..NThreads

A_LINE == << FuncToken("a") >>

B_LINE == << FuncToken("b"), FuncToken(""), FuncToken("b") >>

ThreadInputs ==
    { << A_LINE, A_LINE >>,
      << A_LINE, B_LINE >>,
      << B_LINE, << <<"IMPORT">> >>, A_LINE >> }

InitThreads ==
    /\ bridge = <<>>
    /\ disk = <<>>
    /\ decoded = <<>>
    /\ host = <<>>
    /\ generator = <<>>
    /\ function_cooccurrence = <<>>
    /\ lastCall = NoCall
    /\ hmm = <<>>
    /\ explain = <<>>
    /\ embedder = <<>>
    /\ similar = <<>>
    /\ pipeline = <<>>
    /\ heavy = <<>>
    /\ \E input \in [Threads -> ThreadInputs] :
          /\ threads = [t \in Threads |->
                           [calls  |-> UpdateCalls(input[t], 1),
                            phase  |-> "call",
                            loaded |-> 0]]
          /\ observed = [p \in FuncNames \X FuncNames |->
                            SumSeq([t \in Threads |-> PairCount(input[t], p[1], p[2])])]

\* update_cooccurrence returns at once on an empty name (observer.py:99-100)
ThreadSkip(t) ==
    /\ threads[t].phase = "call"
    /\ threads[t].calls # <<>>
    /\ LET call == Head(threads[t].calls)
       IN  call[1] = "" \/ call[2] = ""
    /\ threads' = [threads EXCEPT ![t].calls = Tail(@)]
    /\ UNCHANGED <<function_cooccurrence, observed, lastCall, hmm, explain, embedder, similar, pipeline, heavy, generator, host, decoded, disk, bridge>>

\* the load of function_cooccurrence[prev_func][next_func]
ThreadLoad(t) ==
    /\ threads[t].phase = "call"
    /\ threads[t].calls # <<>>
    /\ LET call == Head(threads[t].calls)
           row  == IF call[1] \in DOMAIN function_cooccurrence
                   THEN function_cooccurrence[call[1]] ELSE <<>>
       IN  /\ call[1] # "" /\ call[2] # ""
           /\ function_cooccurrence' = TableStore(function_cooccurrence, call[1], row)
           /\ threads' = [threads EXCEPT ![t].phase = "store",
                                         ![t].loaded = RowWeight(row, call[2])]
    /\ UNCHANGED <<observed, lastCall, hmm, explain, embedder, similar, pipeline, heavy, generator, host, decoded, disk, bridge>>

\* the store of the loaded weight plus lr
ThreadStore(t) ==
    /\ threads[t].phase = "store"
    /\ LET call == Head(threads[t].calls)
       IN  function_cooccurrence' =
               TableStore(function_cooccurrence, call[1],
                          RowStore(function_cooccurrence[call[1]], call[2],
                                   threads[t].loaded + COOCCURRENCE_LEARNING_RATE))
    /\ threads' = [threads EXCEPT ![t].phase = "call", ![t].calls = Tail(@)]
    /\ UNCHANGED <<observed, lastCall, hmm, explain, embedder, similar, pipeline, heavy, generator, host, decoded, disk, bridge>>

ThreadsNext == \E t \in Threads : ThreadSkip(t) \/ ThreadLoad(t) \/ ThreadStore(t)

SpecThreads == InitThreads /\ [][ThreadsNext]_vars

AllThreadsDone == \A t \in Threads : threads[t].calls = <<>>

----------------------------------------------------------------------------
(* core/markov.py: HiddenMarkovModel.  A probability matrix is            *)
(* [given, nums, den]: entry (i, j) is nums[i][j] / den; given is FALSE    *)
(* for an argument of None.  Indices start at 1; index 0 stands for None.  *)
(* An intermediate result that is used more than once is bound through a   *)
(* one-element set, CHOOSE r \in {F(x) : x \in {e}} : TRUE, so that it is   *)
(* computed once.                                                          *)

NoMatrix == [given |-> FALSE, nums |-> <<>>, den |-> 1]

Matrix(nums, den) == [given |-> TRUE, nums |-> nums, den |-> den]

_default_hidden_states ==
    << "FILE_OPERATION", "PROCESS_MANAGEMENT", "SYSTEM_INFO", "PATH_MANIPULATION",
       "ERROR_HANDLING", "DATA_PROCESSING", "INITIALIZATION" >>

\* list.index / the state_map lookup, 0 when absent
IndexOf(list, x) ==
    IF \E i \in 1..Len(list) : list[i] = x
    THEN CHOOSE i \in 1..Len(list) :
            list[i] = x /\ \A k \in 1..(i - 1) : list[k] # x
    ELSE 0

RECURSIVE GCD(_, _)
GCD(a, b) == IF b = 0 THEN a ELSE GCD(b, a % b)

RECURSIVE LCMSeq(_)
LCMSeq(s) ==
    IF s = <<>> THEN 1
    ELSE LET rest == LCMSeq(Tail(s)) IN (Head(s) * rest) \div GCD(Head(s), rest)

\* The entries of the default matrix before it is normalised, in twentieths
BASE_TRANSITION == 1

SELF_LOOP == 8

INIT_TO_FILE == 6

FILE_TO_ERROR == 3

RawTransition(hidden_states) ==
    LET n        == Len(hidden_states)
        init_idx == IndexOf(hidden_states, "INITIALIZATION")
        file_idx == IndexOf(hidden_states, "FILE_OPERATION")
        err_idx  == IndexOf(hidden_states, "ERROR_HANDLING")
    IN  [i \in 1..n |-> [j \in 1..n |->
            IF file_idx # 0 /\ err_idx # 0 /\ i = file_idx /\ j = err_idx
                THEN FILE_TO_ERROR
            ELSE IF init_idx # 0 /\ file_idx # 0 /\ i = init_idx /\ j = file_idx
                THEN INIT_TO_FILE
            ELSE IF i = j THEN SELF_LOOP
            ELSE BASE_TRANSITION]]

\* trans / trans.sum(dim=1, keepdim=True), on one common denominator
NormalizeRows(raw) ==
    LET n    == Len(raw)
        sums == [i \in 1..n |-> SumSeq(raw[i])]
        den  == LCMSeq(sums)
    IN  Matrix([i \in 1..n |-> [j \in 1..n |-> raw[i][j] * (den \div sums[i])]], den)

_default_transition_matrix(hidden_states) ==
    NormalizeRows(RawTransition(hidden_states))

\* __init__: an empty or missing list of hidden states gives the default seven,
\* a matrix that is given is stored as it is
HiddenMarkovModel(observable_states, hidden_states, transition_matrix, emission_matrix) ==
    LET states == IF hidden_states # <<>> THEN hidden_states ELSE _default_hidden_states
    IN  [ observable_states |-> observable_states,
          hidden_states     |-> states,
          n_hidden          |-> Len(states),
          transition        |-> IF transition_matrix.given THEN transition_matrix
                                ELSE _default_transition_matrix(states),
          emission          |-> emission_matrix ]

_get_observation_index(h, observation) ==
    IF h.observable_states # <<>> THEN IndexOf(h.observable_states, observation) ELSE 0

\* ones(n) * 0.01 / sum: the same for every token
_rule_based_emission(h, obs_idx) ==
    [nums |-> [s \in 1..h.n_hidden |-> 1], den |-> h.n_hidden]

_get_emission_probs(h, obs_idx) ==
    IF h.emission.given /\ obs_idx # 0
    THEN [nums |-> [s \in 1..h.n_hidden |-> h.emission.nums[s][obs_idx]],
          den  |-> h.emission.den]
    ELSE _rule_based_emission(h, obs_idx)

\* An argmax that answers with the last index holding the maximum
argmax_last(v) ==
    CHOOSE i \in 1..Len(v) :
        /\ \A k \in 1..Len(v) : v[k] <= v[i]
        /\ \A k \in (i + 1)..Len(v) : v[k] < v[i]

\* torch.argmax / torch.max: the first index holding the maximum
argmax(v) ==
    CHOOSE i \in 1..Len(v) :
        /\ \A k \in 1..Len(v) : v[k] <= v[i]
        /\ \A k \in 1..(i - 1) : v[k] < v[i]

\* viterbi_matrix[:, 0]; initial is uniform, 1 / n_hidden
FirstColumn(h, observations) ==
    LET obs_idx == _get_observation_index(h, observations[1])
    IN  IF obs_idx # 0
        THEN [s \in 1..h.n_hidden |-> 1 * _get_emission_probs(h, obs_idx).nums[s]]
        ELSE [s \in 1..h.n_hidden |-> 1]

\* One round of the forward pass: column t and its backpointers from column t-1
NextColumn_transposed(h, observations, t, prev) ==
    LET emission_probs ==
            _get_emission_probs(h, _get_observation_index(h, observations[t])).nums
    IN  CHOOSE col \in
          { [ v |-> [s \in 1..h.n_hidden |-> tp[s][argmax(tp[s])] * emission_probs[s]],
              b |-> [s \in 1..h.n_hidden |-> argmax(tp[s])] ] :
            tp \in { [s \in 1..h.n_hidden |->
                        [p \in 1..h.n_hidden |-> prev[p] * h.transition.nums[s][p]]] } }
          : TRUE

\* trans_probs = viterbi_matrix[:, t-1] * transition[:, s], then max and argmax
NextColumn(h, observations, t, prev) ==
    LET emission_probs ==
            _get_emission_probs(h, _get_observation_index(h, observations[t])).nums
    IN  CHOOSE col \in
          { [ v |-> [s \in 1..h.n_hidden |-> tp[s][argmax(tp[s])] * emission_probs[s]],
              b |-> [s \in 1..h.n_hidden |-> argmax(tp[s])] ] :
            tp \in { [s \in 1..h.n_hidden |->
                        [p \in 1..h.n_hidden |-> prev[p] * h.transition.nums[p][s]]] } }
          : TRUE

\* The columns 1..t of viterbi_matrix and backpointer
RECURSIVE Forward(_, _, _)
Forward(h, observations, t) ==
    IF t = 1
    THEN << [v |-> FirstColumn(h, observations), b |-> [s \in 1..h.n_hidden |-> 1]] >>
    ELSE CHOOSE cols \in
            { Append(before, NextColumn(h, observations, t, before[t - 1].v)) :
              before \in {Forward(h, observations, t - 1)} }
            : TRUE

\* path[t] = backpointer[path[t+1], t+1], from the last column back
RECURSIVE Backtrack(_, _, _)
Backtrack(cols, t, later) ==
    IF t = 0 THEN later
    ELSE CHOOSE path \in
            { Backtrack(cols, t - 1, earlier) :
              earlier \in { <<cols[t + 1].b[Head(later)]>> \o later } }
            : TRUE

viterbi_indices(h, observations) ==
    CHOOSE path \in
        { Backtrack(cols, Len(observations) - 1, <<argmax(cols[Len(observations)].v)>>) :
          cols \in {Forward(h, observations, Len(observations))} }
        : TRUE

viterbi(h, observations) ==
    IF Len(observations) = 0 THEN <<>>
    ELSE CHOOSE states \in
            { [t \in 1..Len(path) |-> h.hidden_states[path[t]]] :
              path \in {viterbi_indices(h, observations)} }
            : TRUE

----------------------------------------------------------------------------
(* core/markov.py: tokens and predict_intent.  A token is kept as the      *)
(* sequence of its pieces, so that the substring tests of                  *)
(* _map_tokens_to_observations are tests on pieces.                        *)

\* str.lower() on a piece
LowerPiece(p) ==
    CASE p = "OS." -> "os."
      [] p = "GETPID" -> "getpid"
      [] p = "IMPORT" -> "import"
      [] p = "CALL" -> "call"
      [] OTHER -> p

lower(token) == [i \in 1..Len(token) |-> LowerPiece(token[i])]

\* x in token
contains(token, x) == \E i \in 1..Len(token) : token[i] = x

contains_any(token, xs) == \E x \in xs : contains(token, x)

TOKEN_IMPORT == <<"IMPORT">>

TOKEN_CALL == <<"CALL">>

TOKEN_OS_LISTDIR == <<"os.", "listdir">>

TOKEN_OS_GETPID == <<"OS.", "GETPID">>

TOKEN_OS_PATH_JOIN == <<"os.", "path.join">>

TOKEN_OS_SEP == <<"os.", "sep">>

map_token(token) ==
    IF contains(lower(token), "os.")
    THEN IF contains_any(lower(token), {"listdir", "walk", "scandir", "mkdir", "remove"})
            THEN <<"FILE_OP_TOKEN">>
         ELSE IF contains_any(lower(token), {"getpid", "getcwd", "getenv"})
            THEN <<"SYSTEM_INFO_TOKEN">>
         ELSE IF contains_any(lower(token), {"path.join", "path.exists", "path.dirname"})
            THEN <<"PATH_TOKEN">>
         ELSE token
    ELSE token

_map_tokens_to_observations(tokens) == [i \in 1..Len(tokens) |-> map_token(tokens[i])]

\* dominant.replace('_', ' ').title()
Title(label) ==
    CASE label = "FILE_OPERATION" -> "File Operation"
      [] label = "PROCESS_MANAGEMENT" -> "Process Management"
      [] label = "SYSTEM_INFO" -> "System Info"
      [] label = "PATH_MANIPULATION" -> "Path Manipulation"
      [] label = "ERROR_HANDLING" -> "Error Handling"
      [] label = "DATA_PROCESSING" -> "Data Processing"
      [] label = "INITIALIZATION" -> "Initialization"
      [] OTHER -> label

\* state_counts: a dict, its keys in the order the states first occur
RECURSIVE state_counts(_, _)
state_counts(state_sequence, counts) ==
    IF state_sequence = <<>> THEN counts
    ELSE LET state == Head(state_sequence)
             i     == IndexOf([k \in 1..Len(counts) |-> counts[k].state], state)
         IN  state_counts(Tail(state_sequence),
                IF i = 0 THEN Append(counts, [state |-> state, n |-> 1])
                ELSE [counts EXCEPT ![i].n = @ + 1])

\* max(state_counts, key=state_counts.get): the first key with the largest count
max_by_count_last(counts) ==
    LET ns == [k \in 1..Len(counts) |-> counts[k].n]
        i  == CHOOSE i \in 1..Len(ns) :
                 /\ \A k \in 1..Len(ns) : ns[k] <= ns[i]
                 /\ \A k \in (i + 1)..Len(ns) : ns[k] < ns[i]
    IN  counts[i].state

max_by_count(counts) ==
    counts[argmax([k \in 1..Len(counts) |-> counts[k].n])].state

NoSummary == [text |-> "", primary |-> "", total |-> 0, distinct |-> 0]

_generate_state_summary(state_sequence) ==
    IF state_sequence = <<>> THEN [NoSummary EXCEPT !.text = "No states detected"]
    ELSE LET dominant == max_by_count(state_counts(state_sequence, <<>>))
         IN  [ text     |-> "Primary intent",
               primary  |-> Title(dominant),
               total    |-> Len(state_sequence),
               distinct |-> Cardinality({state_sequence[i] : i \in 1..Len(state_sequence)}) ]

_get_dominant_state(state_sequence) ==
    IF state_sequence = <<>> THEN "None"
    ELSE max_by_count(state_counts(state_sequence, <<>>))

predict_intent_empty_error(h, tokens) ==
    CHOOSE result \in
        { [ states         |-> state_sequence,
            tokens         |-> tokens,
            dominant_state |-> _get_dominant_state(state_sequence) ] :
          state_sequence \in {viterbi(h, _map_tokens_to_observations(tokens))} }
        : TRUE

\* The result is a dict; for no tokens it has the keys states and summary only
predict_intent(h, tokens) ==
    IF tokens = <<>>
    THEN [ states |-> <<>>, summary |-> [NoSummary EXCEPT !.text = "No code tokens found"] ]
    ELSE CHOOSE result \in
            { [ states         |-> state_sequence,
                summary        |-> _generate_state_summary(state_sequence),
                tokens         |-> tokens,
                dominant_state |-> _get_dominant_state(state_sequence) ] :
              state_sequence \in {viterbi(h, _map_tokens_to_observations(tokens))} }
            : TRUE

----------------------------------------------------------------------------
(* core/pseudocode_generator.py: the parts of the explanation that come    *)
(* from the classifier's result                                            *)

\* dict.get(key, default)
Get(dict, key, default) == IF key \in DOMAIN dict THEN dict[key] ELSE default

AlgorithmPattern(dominant_state) ==
    CASE dominant_state = "FILE_OPERATION" -> "Pattern: File System Operations"
      [] dominant_state = "PROCESS_MANAGEMENT" -> "Pattern: Process Control"
      [] dominant_state = "SYSTEM_INFO" -> "Pattern: System Information Retrieval"
      [] dominant_state = "PATH_MANIPULATION" -> "Pattern: Path Operations"
      [] dominant_state = "DATA_PROCESSING" -> "Pattern: Data Processing"
      [] OTHER -> "Pattern: General Operations"

NoExplanation ==
    [status |-> "none", intent |-> NoSummary, dominant |-> "", pattern |-> ""]

\* hmm_result['summary'] raises KeyError when the key is missing; the other
\* reads of hmm_result go through .get
generate_explanation(hmm_result) ==
    IF "summary" \notin DOMAIN hmm_result
    THEN [NoExplanation EXCEPT !.status = "KeyError"]
    ELSE [ status   |-> "ok",
           intent   |-> hmm_result["summary"],
           dominant |-> Get(hmm_result, "dominant_state", "Unknown"),
           pattern  |-> AlgorithmPattern(Get(hmm_result, "dominant_state", "UNKNOWN")) ]

----------------------------------------------------------------------------
(* The classifier as a state machine: a HiddenMarkovModel is constructed,  *)
(* then explain_code runs predict_intent on a token list and hands the     *)
(* result to generate_explanation (core/codeExplainer.py:63-86).           *)

MaxTokens == 3

\* Numerators a caller's matrix may hold, over the denominator 2
ProbNums == {0, 1, 2}

CallerDen == 2

CUSTOM_STATES == << "FILE_OPERATION", "ERROR_HANDLING" >>

CallerMatrices(rows, cols) ==
    { Matrix(m, CallerDen) : m \in [1..rows -> [1..cols -> ProbNums]] }

\* The constructions explored: the default classifier, and a two-state
\* classifier with any transition matrix (or None), with or without one
\* observable state and an emission matrix for it
Classifiers ==
    { HiddenMarkovModel(<<>>, <<>>, NoMatrix, NoMatrix) }
    \cup { HiddenMarkovModel(<<>>, CUSTOM_STATES, t, NoMatrix) :
              t \in CallerMatrices(2, 2) \cup {NoMatrix} }
    \cup { HiddenMarkovModel(<<TOKEN_IMPORT>>, CUSTOM_STATES, t, e) :
              t \in CallerMatrices(2, 2) \cup {NoMatrix},
              e \in CallerMatrices(2, 1) }

ExplainTokens == {TOKEN_IMPORT, TOKEN_OS_LISTDIR}

ExplainInputs == SeqsUpTo(ExplainTokens, MaxTokens)

NotExplained ==
    [called |-> FALSE, tokens |-> <<>>, hmm_result |-> <<>>, explanation |-> NoExplanation]

InitClassifier ==
    /\ bridge = <<>>
    /\ disk = <<>>
    /\ decoded = <<>>
    /\ host = <<>>
    /\ generator = <<>>
    /\ function_cooccurrence = <<>>
    /\ observed = <<>>
    /\ lastCall = NoCall
    /\ threads = <<>>
    /\ hmm \in Classifiers
    /\ explain = NotExplained
    /\ embedder = <<>>
    /\ similar = <<>>
    /\ pipeline = <<>>
    /\ heavy = <<>>

ExplainCode ==
    \E h \in {hmm}, tokens \in ExplainInputs :
        \E hmm_result \in {predict_intent(h, tokens)} :
            /\ explain' = [ called      |-> TRUE,
                            tokens      |-> tokens,
                            hmm_result  |-> hmm_result,
                            explanation |-> generate_explanation(hmm_result) ]
            /\ UNCHANGED <<function_cooccurrence, observed, lastCall, threads, hmm, embedder, similar, pipeline, heavy, generator, host, decoded, disk, bridge>>

ClassifierNext == ExplainCode

SpecClassifier == InitClassifier /\ [][ClassifierNext]_vars

----------------------------------------------------------------------------
(* observer.py: the emission and transition tables it ships, in tenths;    *)
(* one row for each hidden state IMPORT, GET_INPUT, GET_BOUNDS             *)

emission_probabilities ==
    << [IMPORT |-> 9, OPEN |-> 2, INPUT |-> 2, BOUNDS |-> 1, GENERATE |-> 2, UNKNOWN |-> 1],
       [IMPORT |-> 1, OPEN |-> 2, INPUT |-> 9, BOUNDS |-> 1, GENERATE |-> 1, UNKNOWN |-> 1],
       [IMPORT |-> 1, OPEN |-> 2, INPUT |-> 8, BOUNDS |-> 9, GENERATE |-> 1, UNKNOWN |-> 1] >>

transition_probabilities ==
    << [IMPORT |-> 9, GET_INPUT |-> 2, GET_BOUNDS |-> 2],
       [IMPORT |-> 1, GET_INPUT |-> 4, GET_BOUNDS |-> 2],
       [IMPORT |-> 1, GET_INPUT |-> 2, GET_BOUNDS |-> 4] >>

----------------------------------------------------------------------------
(* embedder.py and sublimePlugin/embedderSublime.py: the function matcher. *)
(* An embedding is a vector of integers; the sentence-transformer model is *)
(* an input, the vector it gives for the query.  The cosine                *)
(* dot / (|a| |b|) is kept as its signed square,                           *)
(* sgn(dot) dot^2 / (|a|^2 |b|^2), a rational that orders as the cosine    *)
(* does; nan is what numpy gives for 0/0.                                  *)

Max(a, b) == IF a >= b THEN a ELSE b

Dot(a, b) == SumSeq([i \in 1..Len(a) |-> a[i] * b[i]])

NaN == [nan |-> TRUE, num |-> 0, den |-> 1]

Zero == [nan |-> FALSE, num |-> 0, den |-> 1]

Cosine(a, b) ==
    LET d == Dot(a, b)
    IN  [nan |-> FALSE, num |-> IF d < 0 THEN -(d * d) ELSE d * d,
         den |-> Dot(a, a) * Dot(b, b)]

\* embedder.py: vec1 / norm(vec1) and each row / its norm, with no test of the
\* norms: a zero vector divided by its norm 0 is a vector of nan
_cosine_similarity(vec1, vec2_matrix) ==
    [i \in 1..Len(vec2_matrix) |->
        IF Dot(vec1, vec1) = 0 \/ Dot(vec2_matrix[i], vec2_matrix[i]) = 0
        THEN NaN ELSE Cosine(vec1, vec2_matrix[i])]

\* np.dot of a matrix with rows of one length and a vector of another raises
\* ValueError (shapes not aligned)
_cosine_similarity_raises(vec1, vec2_matrix) ==
    \E i \in 1..Len(vec2_matrix) : Len(vec2_matrix[i]) # Len(vec1)

\* embedderSublime.py: the norms are taken first, and a zero denominator returns
\* before np.dot sees the two shapes
_cosine_sim_raises(a, b) ==
    Dot(a, a) # 0 /\ Dot(b, b) # 0 /\ Len(a) # Len(b)

\* embedderSublime.py: denom == 0 gives 0.0
_cosine_sim(a, b) ==
    IF Dot(a, a) = 0 \/ Dot(b, b) = 0 THEN Zero ELSE Cosine(a, b)

\* x < y on floats: false when either is nan
Less(x, y) == ~x.nan /\ ~y.nan /\ x.num * y.den < y.num * x.den

\* numpy's sort order: ascending, nan after every number
SortsBefore(x, y) == ~x.nan /\ (y.nan \/ Less(x, y))

IndexOrders(n) == {p \in [1..n -> 1..n] : \A i, j \in 1..n : i # j => p[i] # p[j]}

\* np.argsort(a), default kind: ascending and not stable, so equal values come
\* in an order the build chooses
argsort(a) ==
    {p \in IndexOrders(Len(a)) :
        \A i, j \in 1..Len(a) : i < j => ~SortsBefore(a[p[j]], a[p[i]])}

\* s[start:]
SliceFrom(s, start) ==
    LET n  == Len(s)
        lo == IF start < 0 THEN Max(n + start, 0) ELSE Min(start, n)
    IN  [k \in 1..(n - lo) |-> s[lo + k]]

\* s[:stop]
SliceTo(s, stop) ==
    LET n  == Len(s)
        hi == IF stop < 0 THEN Max(n + stop, 0) ELSE Min(stop, n)
    IN  [k \in 1..hi |-> s[k]]

\* list.sort(reverse=True, key=sim): descending, equal keys keep their order
RECURSIVE InsertDescending(_, _)
InsertDescending(sorted, x) ==
    IF sorted = <<>> THEN <<x>>
    ELSE IF Less(Head(sorted).sim, x.sim) THEN <<x>> \o sorted
    ELSE <<Head(sorted)>> \o InsertDescending(Tail(sorted), x)

RECURSIVE SortDescending(_, _)
SortDescending(sims, n) ==
    IF n = 0 THEN <<>>
    ELSE InsertDescending(SortDescending(sims, n - 1), sims[n])

NoEmbeddings == [given |-> FALSE, rows |-> <<>>]

Embeddings(rows) == [given |-> TRUE, rows |-> rows]

CORE == "embedder.py"

PLUGIN == "embedderSublime.py"

\* __init__ of either class
FunctionEmbedder(impl) ==
    [impl |-> impl, function_database |-> <<>>, embeddings |-> NoEmbeddings]

\* load_database of either class: a missing file leaves the object as it is and
\* returns False
load_database(self, file) ==
    IF ~file.exists THEN [self |-> self, returned |-> FALSE]
    ELSE IF self.impl = CORE
    THEN [self |-> [self EXCEPT !.function_database = file.functions,
                                !.embeddings = Embeddings(file.embeddings)],
          returned |-> TRUE]
    ELSE [self |-> [self EXCEPT !.function_database = file.entries,
                                !.embeddings =
                                    Embeddings([i \in 1..Len(file.entries) |->
                                                  file.entries[i].embedding])],
          returned |-> TRUE]

Results(self, similarities, top_indices) ==
    [r \in 1..Len(top_indices) |->
        [function   |-> self.function_database[top_indices[r]],
         similarity |-> similarities[top_indices[r]],
         rank       |-> r]]

\* embedder.py: argsort(similarities)[-top_k:][::-1]; the outcomes it can have
find_similar_functions(self, query_embedding, top_k) ==
    IF ~self.embeddings.given \/ Len(self.function_database) = 0
    THEN {[status |-> "ok", results |-> <<>>]}
    ELSE IF _cosine_similarity_raises(query_embedding, self.embeddings.rows)
    THEN {[status |-> "ValueError", results |-> <<>>]}
    ELSE LET similarities == _cosine_similarity(query_embedding, self.embeddings.rows)
         IN  {[status |-> "ok",
               results |-> Results(self, similarities, Reverse(SliceFrom(order, -top_k)))]
              : order \in argsort(similarities)}

\* embedderSublime.py: sims.sort(reverse=True), sims[:top_k]
find_similar_functions_plugin(self, query_embedding, top_k) ==
    IF self.function_database = <<>> \/ ~self.embeddings.given
    THEN {[status |-> "RuntimeError", results |-> <<>>]}
    ELSE IF \E i \in 1..Len(self.embeddings.rows) :
                _cosine_sim_raises(query_embedding, self.embeddings.rows[i])
    THEN {[status |-> "ValueError", results |-> <<>>]}
    ELSE LET sims == [i \in 1..Len(self.embeddings.rows) |->
                        [sim |-> _cosine_sim(query_embedding, self.embeddings.rows[i]),
                         idx |-> i]]
             top  == SliceTo(SortDescending(sims, Len(sims)), top_k)
         IN  {[status |-> "ok",
               results |-> [r \in 1..Len(top) |->
                              [function   |-> self.function_database[top[r].idx],
                               similarity |-> top[r].sim]]]}

----------------------------------------------------------------------------
(* The matcher as a state machine: one FunctionEmbedder of either class,   *)
(* database files of up to MaxRecords records, queries by their embedding  *)

MaxRecords == 3

Vectors == {<<1, 0>>, <<1, 1>>, <<-1, 0>>, <<0, 0>>}

\* What the sentence-transformer model may give for a query: a vector of the
\* stored dimension, or of another one when the model is not the one the
\* database was built with
QueryVectors == Vectors \cup {<<1, 0, 0>>}

MissingFile == [exists |-> FALSE, functions |-> <<>>, embeddings |-> <<>>, entries |-> <<>>]

\* save_database writes 'functions' and 'embeddings'; the plugin's database
\* has 'entries', each with its 'embedding'
DatabaseFile(rows) ==
    [exists     |-> TRUE,
     functions  |-> [i \in 1..Len(rows) |-> [name |-> i]],
     embeddings |-> rows,
     entries    |-> [i \in 1..Len(rows) |-> [name |-> i, embedding |-> rows[i]]]]

DatabaseFiles == {DatabaseFile(rows) : rows \in SeqsUpTo(Vectors, MaxRecords)} \cup {MissingFile}

SimilarTopKs == 0..(MaxRecords + 1)

NotAsked ==
    [op |-> "none", returned |-> FALSE, query_embedding |-> <<>>, top_k |-> 0,
     status |-> "none", results |-> <<>>]

InitMatcher ==
    /\ bridge = <<>>
    /\ disk = <<>>
    /\ decoded = <<>>
    /\ host = <<>>
    /\ generator = <<>>
    /\ function_cooccurrence = <<>>
    /\ observed = <<>>
    /\ lastCall = NoCall
    /\ threads = <<>>
    /\ hmm = <<>>
    /\ explain = <<>>
    /\ embedder \in {FunctionEmbedder(CORE), FunctionEmbedder(PLUGIN)}
    /\ similar = NotAsked
    /\ pipeline = <<>>
    /\ heavy = <<>>

LoadDatabase ==
    \E file \in DatabaseFiles :
        LET out == load_database(embedder, file)
        IN  /\ embedder' = out.self
            /\ similar' = [NotAsked EXCEPT !.op = "load_database",
                                           !.returned = out.returned]
            /\ UNCHANGED <<function_cooccurrence, observed, lastCall, threads, hmm, explain, pipeline, heavy, generator, host, decoded, disk, bridge>>

FindSimilar ==
    \E query_embedding \in QueryVectors, top_k \in SimilarTopKs :
        \E out \in (IF embedder.impl = CORE
                    THEN find_similar_functions(embedder, query_embedding, top_k)
                    ELSE find_similar_functions_plugin(embedder, query_embedding, top_k)) :
            /\ similar' = [NotAsked EXCEPT !.op = "find_similar_functions",
                                           !.query_embedding = query_embedding,
                                           !.top_k = top_k,
                                           !.status = out.status,
                                           !.results = out.results]
            /\ UNCHANGED <<function_cooccurrence, observed, lastCall, threads, hmm, explain,
                           embedder, pipeline, heavy, generator, host, decoded, disk, bridge>>

MatcherNext == LoadDatabase \/ FindSimilar

SpecMatcher == InitMatcher /\ [][MatcherNext]_vars

----------------------------------------------------------------------------
(* Source text.  A text is the sequence of its characters, so that the     *)
(* substring tests, counts, splits and regular expressions the code runs   *)
(* on it are computed on characters.                                       *)

WHITESPACE == {" ", "\n", "\t"}

LOWERCASE ==
    {"a", "b", "c", "d", "e", "f", "g", "h", "i", "j", "k", "l", "m",
     "n", "o", "p", "q", "r", "s", "t", "u", "v", "w", "x", "y", "z"}

UPPERCASE == {"S", "C"}

DIGITS == {"0", "1", "2", "3", "4", "5", "6", "7", "8", "9"}

\* [a-zA-Z_] and [a-zA-Z0-9_], which is \w on this alphabet
IsIdentStart(c) == c \in LOWERCASE \cup UPPERCASE \cup {"_"}

IsIdentChar(c) == IsIdentStart(c) \/ c \in DIGITS

\* s[i:].startswith(sub), i counted from 1
StartsWithAt(s, sub, i) ==
    /\ i >= 1
    /\ i + Len(sub) - 1 <= Len(s)
    /\ \A k \in 1..Len(sub) : s[i + k - 1] = sub[k]

str_startswith(s, sub) == StartsWithAt(s, sub, 1)

\* sub in s
str_in(sub, s) == \E i \in 1..(Len(s) + 1) : StartsWithAt(s, sub, i)

\* s.find(sub, start): the first position at or after start, 0 when there is none
str_find(s, sub, start) ==
    IF \E i \in start..(Len(s) + 1) : StartsWithAt(s, sub, i)
    THEN CHOOSE i \in start..(Len(s) + 1) :
            /\ StartsWithAt(s, sub, i)
            /\ \A k \in start..(i - 1) : ~StartsWithAt(s, sub, k)
    ELSE 0

\* s.count(sub): occurrences that do not overlap, from the left
RECURSIVE str_count_from(_, _, _)
str_count_from(s, sub, start) ==
    IF str_find(s, sub, start) = 0 THEN 0
    ELSE CHOOSE n \in {1 + str_count_from(s, sub, i + Len(sub)) :
                       i \in {str_find(s, sub, start)}} : TRUE

str_count(s, sub) == str_count_from(s, sub, 1)

\* s[i:], i counted from 1
str_from(s, i) == IF i > Len(s) THEN <<>> ELSE SubSeq(s, i, Len(s))

RECURSIVE str_lstrip(_)
str_lstrip(s) ==
    IF s # <<>> /\ Head(s) \in WHITESPACE THEN str_lstrip(Tail(s)) ELSE s

RECURSIVE str_rstrip(_)
str_rstrip(s) ==
    IF s # <<>> /\ s[Len(s)] \in WHITESPACE
    THEN str_rstrip(SubSeq(s, 1, Len(s) - 1)) ELSE s

str_strip(s) == str_rstrip(str_lstrip(s))

\* s.split('\n'): always at least one piece
RECURSIVE str_split_lines(_)
str_split_lines(s) ==
    IF str_find(s, <<"\n">>, 1) = 0 THEN <<s>>
    ELSE CHOOSE lines \in
            {<<SubSeq(s, 1, i - 1)>> \o str_split_lines(str_from(s, i + 1)) :
             i \in {str_find(s, <<"\n">>, 1)}} : TRUE

\* "\n".join(lines)
RECURSIVE str_join_lines(_)
str_join_lines(lines) ==
    IF lines = <<>> THEN <<>>
    ELSE IF Len(lines) = 1 THEN lines[1]
    ELSE lines[1] \o <<"\n">> \o str_join_lines(Tail(lines))

LowerChar(c) ==
    CASE c = "S" -> "s"
      [] c = "C" -> "c"
      [] OTHER -> c

str_lower(s) == [i \in 1..Len(s) |-> LowerChar(s[i])]

\* The end of the run of identifier characters that starts at i
RECURSIVE IdentEnd(_, _)
IdentEnd(s, i) ==
    IF i + 1 <= Len(s) /\ IsIdentChar(s[i + 1]) THEN IdentEnd(s, i + 1) ELSE i

\* (?:\.[a-zA-Z_][a-zA-Z0-9_]*)* after an identifier ending at e: the end of
\* the dotted name and the number of groups taken
RECURSIVE DottedEnd(_, _, _)
DottedEnd(s, e, groups) ==
    IF e + 2 <= Len(s) /\ s[e + 1] = "." /\ IsIdentStart(s[e + 2])
    THEN DottedEnd(s, IdentEnd(s, e + 2), groups + 1)
    ELSE [end |-> e, groups |-> groups]

\* \s* from position i: the first position that holds no whitespace
RECURSIVE SkipSpace(_, _)
SkipSpace(s, i) ==
    IF i <= Len(s) /\ s[i] \in WHITESPACE THEN SkipSpace(s, i + 1) ELSE i

NoMatch == [found |-> FALSE, name |-> <<>>, end |-> 0]

\* One try of  (name(?:\.name){min_groups,})\s*\(  at position i.  A shorter
\* name never helps: what follows it is then a name character or a dot.
MatchCallAt(s, i, min_groups) ==
    IF i > Len(s) \/ ~IsIdentStart(s[i]) THEN NoMatch
    ELSE LET d == DottedEnd(s, IdentEnd(s, i), 0)
             p == SkipSpace(s, d.end + 1)
         IN  IF d.groups >= min_groups /\ p <= Len(s) /\ s[p] = "("
             THEN [found |-> TRUE, name |-> SubSeq(s, i, d.end), end |-> p]
             ELSE NoMatch

\* re.findall / finditer of the pattern: the names, left to right.  The scan
\* takes the first position at or after i where the pattern matches, and goes
\* on after the end of that match
RECURSIVE findall_calls(_, _, _)
findall_calls(s, i, min_groups) ==
    IF \A k \in i..Len(s) : ~MatchCallAt(s, k, min_groups).found THEN <<>>
    ELSE CHOOSE names \in
            {<<m.name>> \o findall_calls(s, m.end + 1, min_groups) :
             m \in {MatchCallAt(s, k, min_groups) :
                       k \in {j \in i..Len(s) :
                                /\ MatchCallAt(s, j, min_groups).found
                                /\ \A h \in i..(j - 1) :
                                      ~MatchCallAt(s, h, min_groups).found}}} : TRUE

\* One try of  def\s+(\w+)  at position i: the name, and where it ends
MatchDefAt(s, i) ==
    IF /\ StartsWithAt(s, <<"d", "e", "f">>, i)
       /\ SkipSpace(s, i + 3) > i + 3
       /\ SkipSpace(s, i + 3) <= Len(s)
       /\ IsIdentChar(s[SkipSpace(s, i + 3)])
    THEN [found |-> TRUE,
          name |-> SubSeq(s, SkipSpace(s, i + 3), IdentEnd(s, SkipSpace(s, i + 3))),
          end |-> IdentEnd(s, SkipSpace(s, i + 3))]
    ELSE NoMatch

\* re.findall(r'def\s+(\w+)', code)
RECURSIVE findall_defs(_, _)
findall_defs(s, i) ==
    IF \A k \in i..Len(s) : ~MatchDefAt(s, k).found THEN <<>>
    ELSE CHOOSE names \in
            {<<m.name>> \o findall_defs(s, m.end + 1) :
             m \in {MatchDefAt(s, k) :
                       k \in {j \in i..Len(s) :
                                /\ MatchDefAt(s, j).found
                                /\ \A h \in i..(j - 1) : ~MatchDefAt(s, h).found}}} : TRUE

----------------------------------------------------------------------------
(* The source texts explored: every text of up to MaxSourceLines lines     *)
(* drawn from the lines below.                                             *)

\* import os
LINE_IMPORT == <<"i", "m", "p", "o", "r", "t", " ", "o", "s">>

\* files = os.listdir('.')
LINE_ASSIGN_CALL == <<"f", "i", "l", "e", "s", " ", "=", " ", "o", "s", ".", "l", "i", "s", "t", "d", "i", "r", "(", "'", ".", "'", ")">>

\* os.getcwd()
LINE_CALL == <<"o", "s", ".", "g", "e", "t", "c", "w", "d", "(", ")">>

\* for f in files: pass
LINE_FOR == <<"f", "o", "r", " ", "f", " ", "i", "n", " ", "f", "i", "l", "e", "s", ":", " ", "p", "a", "s", "s">>

\* while f: pass
LINE_WHILE == <<"w", "h", "i", "l", "e", " ", "f", ":", " ", "p", "a", "s", "s">>

\* def f(): return 1
LINE_DEF == <<"d", "e", "f", " ", "f", "(", ")", ":", " ", "r", "e", "t", "u", "r", "n", " ", "1">>

\* def f(): return f()
LINE_DEF_RECURSIVE == <<"d", "e", "f", " ", "f", "(", ")", ":", " ", "r", "e", "t", "u", "r", "n", " ", "f", "(", ")">>

\* class C: pass
LINE_CLASS == <<"c", "l", "a", "s", "s", " ", "C", ":", " ", "p", "a", "s", "s">>

\* def f(:
LINE_UNBALANCED == <<"d", "e", "f", " ", "f", "(", ":">>

\* x = <an expression nested deeper than the parser's recursion limit, such as
\* 'a' followed by 200000 times '.b'>, kept as one element of the text
LINE_DEEP == <<"x", " ", "=", " ", "a.b.b.b...">>

NAME_OS == <<"o", "s">>

NAME_OS_LISTDIR == <<"o", "s", ".", "l", "i", "s", "t", "d", "i", "r">>

NAME_OS_GETCWD == <<"o", "s", ".", "g", "e", "t", "c", "w", "d">>

NAME_F == <<"f">>

NAME_FILES == <<"f", "i", "l", "e", "s">>

ARG_DOT == <<".">>

NAME_X == <<"x">>

NAME_C == <<"C">>

SourceLines ==
    {LINE_IMPORT, LINE_ASSIGN_CALL, LINE_CALL, LINE_FOR, LINE_WHILE,
     LINE_DEF, LINE_DEF_RECURSIVE, LINE_CLASS, LINE_UNBALANCED, LINE_DEEP}

MaxSourceLines == 2

Sources == {str_join_lines(ls) : ls \in SeqsUpTo(SourceLines, MaxSourceLines)}

----------------------------------------------------------------------------
(* core/file_manager.py: FileManager.  ast.parse is the library's parser;  *)
(* the model gives, for each line explored, the node ast.parse builds for  *)
(* it, and the exception it raises for a text it cannot turn into a tree.  *)

Name(id) == [type |-> "Name", id |-> id]

Constant(value) == [type |-> "Constant", value |-> value]

Attribute(value, attr) == [type |-> "Attribute", value |-> value, attr |-> attr]

Call(func, args, lineno) == [type |-> "Call", func |-> func, args |-> args, lineno |-> lineno]

Pass == [type |-> "Pass"]

\* The statement node of one line
NodeOf(line, lineno) ==
    CASE line = LINE_IMPORT ->
            [type |-> "Import", names |-> <<[name |-> NAME_OS, asname |-> "None"]>>]
      [] line = LINE_ASSIGN_CALL ->
            [type |-> "Assign", lineno |-> lineno, targets |-> <<Name(NAME_FILES)>>,
             value |-> Call(Attribute(Name(NAME_OS), <<"l", "i", "s", "t", "d", "i", "r">>),
                            <<Constant(ARG_DOT)>>, lineno)]
      [] line = LINE_CALL ->
            [type |-> "Expr",
             value |-> Call(Attribute(Name(NAME_OS), <<"g", "e", "t", "c", "w", "d">>), <<>>, lineno)]
      [] line = LINE_FOR ->
            [type |-> "For", lineno |-> lineno, target |-> Name(NAME_F),
             iter |-> Name(NAME_FILES), body |-> <<Pass>>]
      [] line = LINE_WHILE ->
            [type |-> "While", lineno |-> lineno, test |-> Name(NAME_F), body |-> <<Pass>>]
      [] line = LINE_DEF ->
            [type |-> "FunctionDef", name |-> NAME_F,
             body |-> <<[type |-> "Return", value |-> Constant(<<"1">>)]>>]
      [] line = LINE_DEF_RECURSIVE ->
            [type |-> "FunctionDef", name |-> NAME_F,
             body |-> <<[type |-> "Return", value |-> Call(Name(NAME_F), <<>>, lineno)]>>]
      [] line = LINE_CLASS ->
            [type |-> "ClassDef", name |-> NAME_C, body |-> <<Pass>>]

\* ast.parse(file): a tree, or the exception raised.  A syntax error is found by
\* the parser; a text that parses may still exceed the recursion limit when the
\* tree is built.
ast_parse(file) ==
    LET lines == IF file = <<>> THEN <<>> ELSE str_split_lines(file)
    IN  IF \E i \in 1..Len(lines) : lines[i] = LINE_UNBALANCED
        THEN [raised |-> "SyntaxError", tree |-> <<>>]
        ELSE IF \E i \in 1..Len(lines) : lines[i] = LINE_DEEP
        THEN [raised |-> "RecursionError", tree |-> <<>>]
        ELSE [raised |-> "None",
              tree |-> <<[type |-> "Module",
                          body |-> [i \in 1..Len(lines) |-> NodeOf(lines[i], i)]]>>]

\* ast.iter_child_nodes
Children(node) ==
    CASE node.type = "Module" -> node.body
      [] node.type = "Assign" -> node.targets \o <<node.value>>
      [] node.type = "Expr" -> <<node.value>>
      [] node.type = "Call" -> <<node.func>> \o node.args
      [] node.type = "Attribute" -> <<node.value>>
      [] node.type = "For" -> <<node.target, node.iter>> \o node.body
      [] node.type = "While" -> <<node.test>> \o node.body
      [] node.type = "FunctionDef" -> node.body
      [] node.type = "ClassDef" -> node.body
      [] node.type = "Return" -> <<node.value>>
      [] OTHER -> <<>>

\* ast.walk: breadth first, from a queue
RECURSIVE Walk(_)
Walk(todo) ==
    IF todo = <<>> THEN <<>>
    ELSE <<Head(todo)>> \o Walk(Tail(todo) \o Children(Head(todo)))

\* FileManager.__init__: only SyntaxError is caught; tree stays None after it
FileManager(file) ==
    LET parsed == ast_parse(file)
    IN  IF parsed.raised = "None" THEN [raised |-> "None", file |-> file, tree |-> parsed.tree]
        ELSE IF parsed.raised = "SyntaxError"
        THEN [raised |-> "None", file |-> file, tree |-> <<>>]
        ELSE [raised |-> parsed.raised, file |-> file, tree |-> <<>>]

\* Python's filter-and-collect over ast.walk(self.tree); nothing when tree is None
RECURSIVE Collect(_, _)
Collect(nodes, types) ==
    IF nodes = <<>> THEN <<>>
    ELSE (IF Head(nodes).type \in types THEN <<Head(nodes)>> ELSE <<>>)
         \o Collect(Tail(nodes), types)

Nodes(self, types) == Collect(Walk(self.tree), types)

get_imports(self) ==
    LET found == Nodes(self, {"Import"})
    IN  [i \in 1..Len(found) |->
            [type |-> "import", module |-> found[i].names[1].name,
             alias |-> found[i].names[1].asname]]

RECURSIVE _get_obj_name(_)
_get_obj_name(node) ==
    IF node.type = "Name" THEN node.id
    ELSE IF node.type = "Attribute" THEN _get_obj_name(node.value) \o <<".">> \o node.attr
    ELSE <<"u", "n", "k", "n", "o", "w", "n">>

_extract_args(args) ==
    [i \in 1..Len(args) |->
        IF args[i].type = "Constant" THEN args[i].value
        ELSE IF args[i].type = "Name" THEN args[i].id
        ELSE <<"c", "o", "m", "p", "l", "e", "x", "_", "a", "r", "g">>]

_extract_call_info(node) ==
    IF node.func.type = "Name"
    THEN [type |-> "simple", name |-> node.func.id, full_name |-> node.func.id,
          args |-> _extract_args(node.args), lineno |-> node.lineno]
    ELSE [type |-> "attribute", object |-> _get_obj_name(node.func.value),
          method |-> node.func.attr,
          full_name |-> _get_obj_name(node.func.value) \o <<".">> \o node.func.attr,
          args |-> _extract_args(node.args), lineno |-> node.lineno]

get_function_calls(self) ==
    LET found == Nodes(self, {"Call"})
    IN  [i \in 1..Len(found) |-> _extract_call_info(found[i])]

_get_target_name(node) == IF node.type = "Name" THEN node.id ELSE <<"u", "n", "k", "n", "o", "w", "n">>

get_control_flow(self) ==
    LET found == Nodes(self, {"For", "While"})
    IN  [i \in 1..Len(found) |->
            IF found[i].type = "For"
            THEN [type |-> "for_loop", lineno |-> found[i].lineno,
                  target |-> _get_target_name(found[i].target)]
            ELSE [type |-> "while_loop", lineno |-> found[i].lineno]]

get_assignments(self) ==
    LET found == Nodes(self, {"Assign"})
    IN  [i \in 1..Len(found) |->
            [variable |-> found[i].targets[1].id, lineno |-> found[i].lineno]]

\* The tokens of core/markov.py are kept as sequences of pieces (see above);
\* this is the same string in that form
TokenOf(name) ==
    CASE name = NAME_OS_LISTDIR -> TOKEN_OS_LISTDIR
      [] name = NAME_OS_GETCWD -> <<"os.", "getcwd">>
      [] name = NAME_OS -> <<"os">>
      [] name = NAME_F -> <<"f">>

RECURSIVE Flatten(_)
Flatten(lists) == IF lists = <<>> THEN <<>> ELSE Head(lists) \o Flatten(Tail(lists))

tokenize_for_hmm(self) ==
    LET imports     == get_imports(self)
        calls       == get_function_calls(self)
        structs     == get_control_flow(self)
        assignments == get_assignments(self)
    IN  Flatten([i \in 1..Len(imports) |-> <<TOKEN_IMPORT, TokenOf(imports[i].module)>>])
        \o Flatten([i \in 1..Len(calls) |-> <<TOKEN_CALL, TokenOf(calls[i].full_name)>>])
        \o [i \in 1..Len(structs) |->
               IF structs[i].type = "for_loop" THEN <<"FOR_LOOP">> ELSE <<"WHILE_LOOP">>]
        \o [i \in 1..Len(assignments) |-> <<"ASSIGN">>]

get_code_summary(self) ==
    [imports        |-> get_imports(self),
     function_calls |-> get_function_calls(self),
     control_flow   |-> get_control_flow(self),
     assignments    |-> get_assignments(self),
     tokens         |-> tokenize_for_hmm(self)]

----------------------------------------------------------------------------
(* embedder.py: match_function_call, and core/pseudocode_generator.py: the *)
(* pseudocode steps and the algorithm summary.  encode is the embedding    *)
(* model: a function from query texts to vectors.                          *)

\* s.replace(old, new) for single characters
str_replace(s, old, new) == [i \in 1..Len(s) |-> IF s[i] = old THEN new ELSE s[i]]

\* ' '.join(str(arg) for arg in args) and ', '.join(args)
RECURSIVE str_join(_, _)
str_join(sep, parts) ==
    IF parts = <<>> THEN <<>>
    ELSE IF Len(parts) = 1 THEN parts[1]
    ELSE parts[1] \o sep \o str_join(sep, Tail(parts))

QueryOf(function_call_info) ==
    LET query == str_replace(str_replace(function_call_info.full_name, ".", " "), "_", " ")
    IN  IF function_call_info.args # <<>>
        THEN query \o <<" ">> \o str_join(<<" ">>, function_call_info.args)
        ELSE query

\* similarity > n/d, on the signed square of the cosine; false for nan
Above(similarity, n, d) ==
    /\ ~similarity.nan
    /\ similarity.num > 0
    /\ similarity.num * d * d > similarity.den * n * n

\* A match_function_call that answers with a record of its own when the
\* database has nothing to offer
match_function_call_default(self, function_call_info, encode) ==
    LET out == CHOOSE o \in find_similar_functions(self, encode[QueryOf(function_call_info)], 1)
                   : TRUE
    IN  IF out.status # "ok" THEN [raised |-> out.status, match |-> <<>>]
        ELSE IF out.results # <<>> THEN [raised |-> "None", match |-> <<out.results[1]>>]
        ELSE [raised |-> "None",
              match |-> <<[function |-> [name |-> 0],
                           similarity |-> [nan |-> FALSE, num |-> 1, den |-> 1],
                           rank |-> 1]>>]

\* match_function_call: the best match, None (an empty list here) when there is
\* none, or the exception find_similar_functions raised
match_function_call(self, function_call_info, encode) ==
    LET out == CHOOSE o \in find_similar_functions(self, encode[QueryOf(function_call_info)], 1)
                   : TRUE
    IN  IF out.status # "ok" THEN [raised |-> out.status, match |-> <<>>]
        ELSE IF out.results # <<>> THEN [raised |-> "None", match |-> <<out.results[1]>>]
        ELSE [raised |-> "None", match |-> <<>>]

PatternPhrase(text, args, default) ==
    [kind |-> "pattern", text |-> text,
     arg |-> IF args # <<>> THEN args[1] ELSE default]

_pattern_based_description(func_name, args) ==
    LET name_lower == str_lower(func_name)
    IN  IF str_in(<<"o", "s", ".", "l", "i", "s", "t", "d", "i", "r">>, name_lower)
            THEN PatternPhrase("Get list of all files and directories in", args, <<"s", "p", "e", "c", "i", "f", "i", "e", "d", " ", "p", "a", "t", "h">>)
        ELSE IF str_in(<<"o", "s", ".", "g", "e", "t", "c", "w", "d">>, name_lower)
            THEN PatternPhrase("Get the current working directory path", <<>>, <<>>)
        ELSE IF str_in(<<"o", "s", ".", "p", "a", "t", "h", ".", "j", "o", "i", "n">>, name_lower)
            THEN PatternPhrase("Combine path components:", <<str_join(<<",", " ">>, args)>>, <<>>)
        ELSE IF str_in(<<"o", "s", ".", "p", "a", "t", "h", ".", "e", "x", "i", "s", "t", "s">>, name_lower)
            THEN PatternPhrase("Check if path exists", args, <<"s", "p", "e", "c", "i", "f", "i", "e", "d">>)
        ELSE IF str_in(<<"o", "s", ".", "p", "a", "t", "h", ".", "i", "s", "d", "i", "r">>, name_lower)
            THEN PatternPhrase("Check if is a directory", args, <<"p", "a", "t", "h">>)
        ELSE IF str_in(<<"o", "s", ".", "p", "a", "t", "h", ".", "i", "s", "f", "i", "l", "e">>, name_lower)
            THEN PatternPhrase("Check if is a file", args, <<"p", "a", "t", "h">>)
        ELSE IF str_in(<<"o", "s", ".", "m", "k", "d", "i", "r">>, name_lower)
            THEN PatternPhrase("Create directory", args, <<"a", "t", " ", "s", "p", "e", "c", "i", "f", "i", "e", "d", " ", "p", "a", "t", "h">>)
        ELSE IF str_in(<<"o", "s", ".", "r", "e", "m", "o", "v", "e">>, name_lower)
            THEN PatternPhrase("Delete file", args, <<"a", "t", " ", "s", "p", "e", "c", "i", "f", "i", "e", "d", " ", "p", "a", "t", "h">>)
        ELSE IF str_in(<<"o", "s", ".", "w", "a", "l", "k">>, name_lower)
            THEN PatternPhrase("Traverse directory tree starting from", args, <<"r", "o", "o", "t">>)
        ELSE IF str_in(<<"o", "p", "e", "n">>, name_lower)
            THEN PatternPhrase("Open file", args, <<"s", "p", "e", "c", "i", "f", "i", "e", "d">>)
        ELSE IF str_in(<<"r", "e", "a", "d">>, name_lower)
            THEN PatternPhrase("Read content from file", <<>>, <<>>)
        ELSE IF str_in(<<"w", "r", "i", "t", "e">>, name_lower)
            THEN PatternPhrase("Write data to file", <<>>, <<>>)
        ELSE IF str_in(<<"c", "l", "o", "s", "e">>, name_lower)
            THEN PatternPhrase("Close file handle", <<>>, <<>>)
        ELSE IF str_in(<<"p", "r", "i", "n", "t">>, name_lower)
            THEN PatternPhrase("Display output:", args, <<"r", "e", "s", "u", "l", "t">>)
        ELSE [kind |-> "pattern", text |-> "Call function",
              arg |-> func_name \o (IF args # <<>>
                                    THEN <<" ", "w", "i", "t", "h", " ", "a", "r", "g", "u", "m", "e", "n", "t", "s", " ">> \o str_join(<<",", " ">>, args)
                                    ELSE <<>>)]

\* One step of the pseudocode: its number, its indent level, what it is made from
\* (op, lineno) and its wording
Step(step, indent_level, op, lineno, wording) ==
    [step |-> step, indent |-> indent_level, op |-> op, lineno |-> lineno,
     wording |-> wording]

\* _generate_function_call_step: the description of the matched record when the
\* match is better than 0.5, the pattern-based description otherwise
_generate_function_call_step(self, call_info, indent_level, step, encode) ==
    LET m == IF self # <<>> THEN match_function_call(self, call_info, encode)
             ELSE [raised |-> "None", match |-> <<>>]
    IN  IF m.raised # "None" THEN [raised |-> m.raised, step |-> <<>>]
        ELSE IF m.match # <<>> /\ Above(m.match[1].similarity, 1, 2)
        THEN [raised |-> "None",
              step |-> <<Step(step, indent_level, "call", call_info.lineno,
                              [kind |-> "semantic", text |-> "description of record",
                               arg |-> m.match[1].function.name])>>]
        ELSE [raised |-> "None",
              step |-> <<Step(step, indent_level, "call", call_info.lineno,
                              _pattern_based_description(call_info.full_name,
                                                         call_info.args))>>]

_generate_assignment_step(assign_info, indent_level, step) ==
    Step(step, indent_level, "assign", assign_info.lineno,
         [kind |-> "assign", text |-> "Store result in variable",
          arg |-> assign_info.variable])

\* The wording of a control structure and the change of indent after it
ControlWording(struct_info) ==
    CASE struct_info.type = "for_loop" ->
            [text |-> "For each in collection:", arg |-> struct_info.target, change |-> 1]
      [] struct_info.type = "while_loop" ->
            [text |-> "While condition is true:", arg |-> <<>>, change |-> 1]
      [] struct_info.type = "conditional" ->
            [text |-> "If condition is met:", arg |-> <<>>, change |-> 1]
      [] struct_info.type = "context_manager" ->
            [text |-> "Open resource context (auto-cleanup):", arg |-> <<>>, change |-> 1]
      [] struct_info.type = "error_handling" ->
            [text |-> "Try to execute with error handling:", arg |-> <<>>, change |-> 1]
      [] OTHER ->
            [text |-> "Execute", arg |-> struct_info.type, change |-> 0]

\* A control-flow step that opens no block
_generate_control_flow_step_flat(struct_info, indent_level, step) ==
    [step |-> Step(step, indent_level, "control", struct_info.lineno,
                   [kind |-> "control", text |-> ControlWording(struct_info).text,
                    arg |-> ControlWording(struct_info).arg]),
     indent_change |-> 0]

_generate_control_flow_step(struct_info, indent_level, step) ==
    LET w == ControlWording(struct_info)
    IN  [step |-> Step(step, indent_level, "control", struct_info.lineno,
                       [kind |-> "control", text |-> w.text, arg |-> w.arg]),
         indent_change |-> w.change]

\* A sort that leaves the list as it was collected
SortByLineno_none(ops, n) == ops

\* list.sort(key=lineno): ascending, equal keys keep their order
RECURSIVE InsertByLineno(_, _)
InsertByLineno(sorted, x) ==
    IF sorted = <<>> THEN <<x>>
    ELSE IF x.data.lineno < Head(sorted).data.lineno THEN <<x>> \o sorted
    ELSE <<Head(sorted)>> \o InsertByLineno(Tail(sorted), x)

RECURSIVE SortByLineno(_, _)
SortByLineno(ops, n) ==
    IF n = 0 THEN <<>> ELSE InsertByLineno(SortByLineno(ops, n - 1), ops[n])

\* The loop over all_operations: step numbers go on from the imports' steps, a
\* control structure raises the indent of everything after it by one
RECURSIVE OperationSteps(_, _, _, _, _)
OperationSteps(self, ops, indent_level, step_counter, encode) ==
    IF ops = <<>> THEN [raised |-> "None", steps |-> <<>>, step_counter |-> step_counter]
    ELSE LET op   == Head(ops)
             this == IF op.op = "call"
                     THEN _generate_function_call_step(self, op.data, indent_level,
                                                       step_counter + 1, encode)
                     ELSE IF op.op = "assign"
                     THEN [raised |-> "None",
                           step |-> <<_generate_assignment_step(op.data, indent_level,
                                                                step_counter + 1)>>]
                     ELSE [raised |-> "None",
                           step |-> <<_generate_control_flow_step(op.data, indent_level,
                                                                  step_counter + 1).step>>]
             rest == OperationSteps(self, Tail(ops),
                                    IF op.op = "control"
                                    THEN indent_level
                                         + _generate_control_flow_step(op.data, indent_level,
                                               step_counter + 1).indent_change
                                    ELSE indent_level,
                                    step_counter + 1, encode)
         IN  IF this.raised # "None"
             THEN [raised |-> this.raised, steps |-> <<>>, step_counter |-> step_counter + 1]
             ELSE IF rest.raised # "None"
             THEN [raised |-> rest.raised, steps |-> <<>>, step_counter |-> rest.step_counter]
             ELSE [raised |-> "None", steps |-> this.step \o rest.steps,
                   step_counter |-> rest.step_counter]

\* PseudocodeGenerator.__init__
PseudocodeGenerator(self_embedder) == [embedder |-> self_embedder, step_counter |-> 0]

\* A generate_explanation that leaves step_counter as the call before left it
KeepCounter(self) == self

\* generate_explanation begins with self.step_counter = 0
ResetCounter(self) == [self EXCEPT !.step_counter = 0]

\* steps: the imports' steps, then those of the loop over all_operations
StepsAfterImports(imports, rest) ==
    IF rest.raised # "None" THEN rest
    ELSE [raised |-> "None", steps |-> imports \o rest.steps,
          step_counter |-> rest.step_counter]

\* self is the generator; every step takes the next value of its step_counter
_generate_pseudocode_steps(self, code_summary, encode) ==
    LET imports == [i \in 1..Len(code_summary.imports) |->
                       Step(self.step_counter + i, 0, "import", 0,
                            [kind |-> "import", text |-> "Import module for system operations",
                             arg |-> code_summary.imports[i].module])]
        all_operations ==
               [i \in 1..Len(code_summary.function_calls) |->
                   [op |-> "call", data |-> code_summary.function_calls[i]]]
            \o [i \in 1..Len(code_summary.assignments) |->
                   [op |-> "assign", data |-> code_summary.assignments[i]]]
            \o [i \in 1..Len(code_summary.control_flow) |->
                   [op |-> "control", data |-> code_summary.control_flow[i]]]
    IN  StepsAfterImports(imports,
            OperationSteps(self.embedder,
                           SortByLineno(all_operations, Len(all_operations)),
                           0, self.step_counter + Len(imports), encode))

\* What the generator is left with: the counter of the last step begun
AfterSteps(self, made) ==
    [raised |-> made.raised, steps |-> made.steps,
     self   |-> [self EXCEPT !.step_counter = made.step_counter]]

\* The pseudocode part of generate_explanation: the counter is set to 0, then
\* the steps are made
GenerateSteps(self, code_summary, encode) ==
    AfterSteps(self, _generate_pseudocode_steps(ResetCounter(self), code_summary, encode))

\* _generate_algorithm_summary, the complexity line
ComplexityLine(code_summary) ==
    LET num_loops == Cardinality({i \in 1..Len(code_summary.control_flow) :
                                    code_summary.control_flow[i].type
                                        \in {"for_loop", "while_loop"}})
    IN  IF num_loops > 0
        THEN [text |-> "O(n) or higher", loops |-> num_loops, operations |-> 0]
        ELSE [text |-> "O(1)", loops |-> 0,
              operations |-> Len(code_summary.function_calls)]

----------------------------------------------------------------------------
(* core/codeExplainer.py: the pipeline as a state machine.  A CodeExplainer *)
(* is constructed over a database file that exists or not; load_database   *)
(* may be called again on that file; explain_code runs on a source text.   *)

\* A database of no record or of one record, or no file at all
PipelineFiles ==
    {MissingFile, DatabaseFile(<<>>)} \cup {DatabaseFile(<<v>>) : v \in Vectors}

\* CodeExplainer.__init__: load_database is called only when the file exists
CodeExplainer(file) ==
    [embedder |-> IF file.exists THEN load_database(FunctionEmbedder(CORE), file).self
                  ELSE FunctionEmbedder(CORE),
     hmm      |-> HiddenMarkovModel(<<>>, <<>>, NoMatrix, NoMatrix)]

NoSummaryOfCode ==
    [imports |-> <<>>, function_calls |-> <<>>, control_flow |-> <<>>,
     assignments |-> <<>>, tokens |-> <<>>]

NoRun ==
    [called |-> FALSE, source |-> <<>>, raised |-> "None",
     code_summary |-> NoSummaryOfCode, hmm_result |-> <<>>, matches |-> <<>>,
     matched_count |-> 0, explanation |-> NoExplanation, steps |-> <<>>,
     complexity |-> <<>>]

\* Step 3 of explain_code: one match_function_call per call found
Matches(self, calls, encode) ==
    [i \in 1..Len(calls) |-> match_function_call(self, calls[i], encode)]

\* Steps 3 and 4 of explain_code, and what it returns
ExplainFrom(self, code_string, encode, code_summary, hmm_result) ==
    CHOOSE run \in
      { IF \E i \in 1..Len(matches) : matches[i].raised # "None"
        THEN [NoRun EXCEPT !.called = TRUE, !.source = code_string,
                           !.raised = "ValueError",
                           !.code_summary = code_summary,
                           !.hmm_result = hmm_result]
        ELSE [called        |-> TRUE,
              source        |-> code_string,
              raised        |-> IF explanation.status # "ok" THEN explanation.status
                                ELSE steps.raised,
              code_summary  |-> code_summary,
              hmm_result    |-> hmm_result,
              matches       |-> matches,
              matched_count |-> Cardinality({i \in 1..Len(matches) :
                                    /\ matches[i].match # <<>>
                                    /\ Above(matches[i].match[1].similarity, 1, 2)}),
              explanation   |-> explanation,
              steps         |-> steps.steps,
              complexity    |-> ComplexityLine(code_summary)]
        : explanation \in {generate_explanation(hmm_result)},
          steps \in {GenerateSteps(PseudocodeGenerator(self.embedder), code_summary,
                                   encode)},
          matches \in {Matches(self.embedder, code_summary.function_calls, encode)} }
      : TRUE

\* explain_code: FileManager, get_code_summary, predict_intent, the matches,
\* generate_explanation; nothing is caught on the way
explain_code(self, code_string, encode) ==
    LET file_manager == FileManager(code_string)
    IN  IF file_manager.raised # "None"
        THEN [NoRun EXCEPT !.called = TRUE, !.source = code_string,
                           !.raised = file_manager.raised]
        ELSE CHOOSE run \in
               { CHOOSE r \in { ExplainFrom(self, code_string, encode, code_summary,
                                            hmm_result)
                                : hmm_result \in
                                    {predict_intent(self.hmm, code_summary.tokens)} }
                   : TRUE
                 : code_summary \in {get_code_summary(file_manager)} }
               : TRUE

\* The query texts of the calls of a source text
Queries(code_string) ==
    LET file_manager == FileManager(code_string)
        calls == get_function_calls(file_manager)
    IN  {QueryOf(calls[i]) : i \in 1..Len(calls)}

\* The source texts whose token stream is within the bound
PipelineSources ==
    {s \in Sources :
        Len(tokenize_for_hmm([raised |-> "None", file |-> s,
                              tree |-> ast_parse(s).tree])) <= MaxTokens}

NotLoaded == [called |-> FALSE, returned |-> FALSE, raised |-> "None"]

InitPipeline ==
    /\ bridge = <<>>
    /\ disk = <<>>
    /\ decoded = <<>>
    /\ host = <<>>
    /\ generator = <<>>
    /\ function_cooccurrence = <<>>
    /\ observed = <<>>
    /\ lastCall = NoCall
    /\ threads = <<>>
    /\ explain = <<>>
    /\ similar = <<>>
    /\ heavy = <<>>
    /\ \E file \in PipelineFiles :
          /\ embedder = CodeExplainer(file).embedder
          /\ hmm = CodeExplainer(file).hmm
          /\ pipeline = [database |-> file, load |-> NotLoaded, run |-> NoRun]

\* embedder.load_database(database_path), called again on the same file
PipelineLoad ==
    LET out == load_database(embedder, pipeline.database)
    IN  /\ embedder' = out.self
        /\ pipeline' = [pipeline EXCEPT !.load = [called |-> TRUE,
                                                  returned |-> out.returned,
                                                  raised |-> "None"]]
        /\ UNCHANGED <<function_cooccurrence, observed, lastCall, threads, hmm, explain, similar, heavy, generator, host, decoded, disk, bridge>>

\* explain_code keeps nothing from one call to the next: one call is explored
\* for each explainer constructed
ExplainSource ==
    \E code_string \in PipelineSources :
        \E encode \in [Queries(code_string) -> QueryVectors] :
            /\ ~pipeline.run.called
            /\ pipeline' = [pipeline EXCEPT !.run =
                               explain_code([embedder |-> embedder, hmm |-> hmm],
                                            code_string, encode)]
            /\ UNCHANGED <<function_cooccurrence, observed, lastCall, threads, hmm, explain, embedder, similar, heavy, generator, host, decoded, disk, bridge>>

PipelineNext == PipelineLoad \/ ExplainSource

SpecPipeline == InitPipeline /\ [][PipelineNext]_vars

----------------------------------------------------------------------------
(* The generator as a state machine: one PseudocodeGenerator object, as    *)
(* CodeExplainer.__init__ keeps it (core/codeExplainer.py:36), and any      *)
(* number of generate_explanation calls on it.                             *)

\* The code summaries generate_explanation is called with: those of the
\* source texts that parse, each with the query texts of its calls
GeneratorSummary(code_string) ==
    [queries      |-> Queries(code_string),
     code_summary |-> get_code_summary(FileManager(code_string))]

GeneratorSummaries ==
    {GeneratorSummary(s) : s \in {t \in Sources : FileManager(t).raised = "None"}}

\* The classifier's results it is called with: that of no tokens, and that of
\* one token
GeneratorIntents ==
    {predict_intent(CodeExplainer(MissingFile).hmm, tokens)
        : tokens \in {<<>>, <<TOKEN_OS_LISTDIR>>}}

\* The calls made on one generator
MaxGenerateCalls == 2

\* The query texts that reach model.encode: none without an embedder, and none
\* when find_similar_functions returns before it for want of a database
EncodedQueries(self, queries) ==
    IF self.embedder = <<>> THEN {}
    ELSE IF ~self.embedder.embeddings.given \/ Len(self.embedder.function_database) = 0
    THEN {}
    ELSE queries

\* The embedder the generator is constructed with: none, one without a
\* database, one with a database of one record
GeneratorEmbedders ==
    {<<>>, FunctionEmbedder(CORE),
     load_database(FunctionEmbedder(CORE), DatabaseFile(<<<<1, 0>>>>)).self}

NoGenerate ==
    [called |-> FALSE, code_summary |-> NoSummaryOfCode, raised |-> "None",
     steps |-> <<>>, explanation |-> NoExplanation]

\* What a generate_explanation leaves: hmm_result['summary'] may raise before
\* any step is made
AfterGenerate(self, code_summary, explanation, made) ==
    IF explanation.status # "ok"
    THEN [self |-> ResetCounter(self),
          call |-> [NoGenerate EXCEPT !.called = TRUE, !.raised = explanation.status,
                                      !.code_summary = code_summary]]
    ELSE [self |-> made.self,
          call |-> [called |-> TRUE, code_summary |-> code_summary,
                    raised |-> made.raised, steps |-> made.steps,
                    explanation |-> explanation]]

\* generate_explanation: the counter is set to 0, the intent lines are
\* written, then the steps are made
generate(self, code_summary, hmm_result, encode) ==
    AfterGenerate(self, code_summary, generate_explanation(hmm_result),
                  GenerateSteps(self, code_summary, encode))

InitGenerator ==
    /\ bridge = <<>>
    /\ disk = <<>>
    /\ decoded = <<>>
    /\ host = <<>>
    /\ function_cooccurrence = <<>>
    /\ observed = <<>>
    /\ lastCall = NoCall
    /\ threads = <<>>
    /\ hmm = <<>>
    /\ explain = <<>>
    /\ embedder = <<>>
    /\ similar = <<>>
    /\ pipeline = <<>>
    /\ heavy = <<>>
    /\ \E e \in GeneratorEmbedders :
          generator = [self |-> PseudocodeGenerator(e), calls |-> 0,
                       counter_at_call |-> 0, last |-> NoGenerate]

\* The generator and the history of its calls after one more call
AfterCall(g, out) ==
    [self |-> out.self, calls |-> g.calls + 1,
     counter_at_call |-> g.self.step_counter, last |-> out.call]

\* self.generator.generate_explanation(code_summary, hmm_result, code_string)
Generate ==
    \E in \in GeneratorSummaries, hmm_result \in GeneratorIntents :
        \E encode \in [EncodedQueries(generator.self, in.queries) -> QueryVectors] :
            /\ generator.calls < MaxGenerateCalls
            /\ generator' = AfterCall(generator, generate(generator.self, in.code_summary,
                                                          hmm_result, encode))
                /\ UNCHANGED <<function_cooccurrence, observed, lastCall, threads, hmm, explain, embedder, similar, pipeline, heavy, host, decoded, disk, bridge>>

GeneratorNext == Generate

SpecGenerator == InitGenerator /\ [][GeneratorNext]_vars

----------------------------------------------------------------------------

(* code_explainer_heavy.py: the analyses that read the source text itself  *)

IsCodeLine(l) == str_strip(l) # <<>> /\ ~str_startswith(str_strip(l), <<"#">>)

HasImport(l) == str_in(<<"i", "m", "p", "o", "r", "t">>, l)

IsDefLine(l) == str_startswith(str_strip(l), <<"d", "e", "f", " ">>)

IsClassLine(l) == str_startswith(str_strip(l), <<"c", "l", "a", "s", "s", " ">>)

\* _analyze_structure: the five counts and the first five import lines
_analyze_structure(code) ==
    LET lines   == str_split_lines(str_strip(code))
        imports == SelectSeq(lines, HasImport)
    IN  [total_lines |-> Len(lines),
         code_lines  |-> Len(SelectSeq(lines, IsCodeLine)),
         imports     |-> Len(imports),
         functions   |-> Len(SelectSeq(lines, IsDefLine)),
         classes     |-> Len(SelectSeq(lines, IsClassLine)),
         imported    |-> [i \in 1..Min(5, Len(imports)) |-> str_strip(imports[i])]]

\* The pattern a line is translated by, in the order the code tries them
PseudocodeKind(stripped) ==
    IF str_in(<<"i", "m", "p", "o", "r", "t">>, stripped) THEN "IMPORT"
    ELSE IF str_startswith(stripped, <<"d", "e", "f", " ">>) THEN "DEFINE function"
    ELSE IF str_startswith(stripped, <<"c", "l", "a", "s", "s", " ">>) THEN "DEFINE class"
    ELSE IF str_startswith(stripped, <<"f", "o", "r", " ">>) THEN "FOR EACH"
    ELSE IF str_startswith(stripped, <<"w", "h", "i", "l", "e", " ">>) THEN "WHILE"
    ELSE IF str_startswith(stripped, <<"i", "f", " ">>) THEN "IF"
    ELSE IF str_startswith(stripped, <<"e", "l", "i", "f", " ">>) THEN "ELSE IF"
    ELSE IF str_startswith(stripped, <<"e", "l", "s", "e", ":">>) THEN "ELSE"
    ELSE IF str_startswith(stripped, <<"r", "e", "t", "u", "r", "n", " ">>) THEN "RETURN"
    ELSE IF str_startswith(stripped, <<"p", "r", "i", "n", "t", "(">>) THEN "OUTPUT"
    ELSE IF str_in(<<"=">>, stripped) /\ ~str_startswith(stripped, <<"=", "=">>) THEN "SET"
    ELSE "EXECUTE:"

\* _generate_pseudocode: one entry for each line that is neither empty nor a
\* comment: its pattern, its indent level and the line it was made from
RECURSIVE PseudocodeLines(_)
PseudocodeLines(lines) ==
    IF lines = <<>> THEN <<>>
    ELSE LET line     == Head(lines)
             stripped == str_strip(line)
         IN  (IF stripped = <<>> \/ str_startswith(stripped, <<"#">>) THEN <<>>
              ELSE <<[kind   |-> PseudocodeKind(stripped),
                      indent |-> (Len(line) - Len(str_lstrip(line))) \div 4,
                      line   |-> stripped]>>)
             \o PseudocodeLines(Tail(lines))

_generate_pseudocode(code) ==
    LET pseudocode == PseudocodeLines(str_split_lines(str_strip(code)))
    IN  IF pseudocode # <<>> THEN pseudocode
        ELSE <<[kind |-> "No executable code found", indent |-> 0, line |-> <<>>]>>

\* any(func_name in code[code.index('def '):] for func_name in re.findall(...))
has_recursion(code) ==
    /\ str_in(<<"d", "e", "f", " ">>, code)
    /\ \E k \in 1..Len(findall_defs(code, 1)) :
          str_in(findall_defs(code, 1)[k], str_from(code, str_find(code, <<"d", "e", "f", " ">>, 1)))

has_loops(code) == str_in(<<"f", "o", "r", " ">>, code) \/ str_in(<<"w", "h", "i", "l", "e", " ">>, code)

has_nested_loops(code) == str_count(code, <<"f", "o", "r", " ">>) > 1 \/ str_count(code, <<"w", "h", "i", "l", "e", " ">>) > 1

O_NESTED == "O(n²) or higher - Nested iterations detected"

O_LOOP == "O(n) - Single loop iteration"

O_RECURSION == "Depends on recursion depth (possibly O(2^n) or O(n log n))"

O_CONSTANT == "O(1) - Constant time operations"

\* _analyze_complexity: the patterns detected and the complexity estimated
_analyze_complexity(code) ==
    [algorithms |->
         (IF str_in(<<"s", "o", "r", "t">>, str_lower(code)) THEN <<"Sorting algorithm detected">> ELSE <<>>)
      \o (IF str_in(<<"s", "e", "a", "r", "c", "h">>, str_lower(code)) \/ str_in(<<"f", "i", "n", "d">>, str_lower(code))
          THEN <<"Search pattern detected">> ELSE <<>>)
      \o (IF has_recursion(code) THEN <<"Recursive approach detected">> ELSE <<>>)
      \o (IF str_in(<<"e", "n", "u", "m", "e", "r", "a", "t", "e">>, code) \/ str_in(<<"r", "a", "n", "g", "e">>, code)
          THEN <<"Iteration pattern detected">> ELSE <<>>),
     complexity |->
         IF has_nested_loops(code) THEN O_NESTED
         ELSE IF has_loops(code) THEN O_LOOP
         ELSE IF has_recursion(code) THEN O_RECURSION
         ELSE O_CONSTANT]

----------------------------------------------------------------------------
(* observer.py: observe_lines, and markov.py: HiddenMarkovModel.emit and   *)
(* transform, as code_explainer_heavy.py uses them                         *)

FuncTokens(names) == [i \in 1..Len(names) |-> <<FUNC_MARK, names[i]>>]

\* The observation tokens of one line
ObservationsOf(line) ==
    LET observations ==
               (IF str_in(<<"i", "m", "p", "o", "r", "t">>, line) THEN << <<"IMPORT">> >> ELSE <<>>)
            \o (IF str_in(<<"o", "p", "e", "n">>, line) THEN << <<"OPEN">> >> ELSE <<>>)
            \o (IF str_in(<<"b", "o", "u", "n", "d">>, line) THEN << <<"BOUNDS">> >> ELSE <<>>)
            \o (IF str_in(<<"i", "n", "p", "u", "t">>, line) THEN << <<"INPUT">> >> ELSE <<>>)
            \o (IF str_in(<<"g", "e", "n", "e", "r", "a", "t", "e">>, line) THEN << <<"GENERATE">> >> ELSE <<>>)
            \o FuncTokens(findall_calls(line, 1, 1))
    IN  IF observations = <<>> THEN << <<"UNKNOWN">> >> ELSE observations

RECURSIVE observe_lines(_)
observe_lines(lines) ==
    IF lines = <<>> THEN <<>>
    ELSE LET line == Head(lines)
         IN  (IF line = <<>> \/ str_strip(line) = <<>>
                 \/ str_startswith(str_strip(line), <<"#">>)
              THEN <<>>
              ELSE <<ObservationsOf(line)>>)
             \o observe_lines(Tail(lines))

\* The labels of the tables, as str() shows them
HIDDEN_LABELS == <<"HiddenStates.IMPORT", "HiddenStates.GET_INPUT", "HiddenStates.GET_BOUNDS">>

\* The values of the labels, the keys of the maps of transition_probabilities
HIDDEN_VALUES == <<"IMPORT", "GET_INPUT", "GET_BOUNDS">>

\* Scores are kept in hundredths: 0.01 for a token the map does not hold, 1.0
\* for a transition the map does not hold
EMISSION_DEFAULT == 1

TRANSITION_DEFAULT == 100

\* score *= state_map.get(o, 0.01), over the tokens of one line
RECURSIVE EmissionScore(_, _)
EmissionScore(state_map, obs) ==
    IF obs = <<>> THEN 1
    ELSE (IF Len(Head(obs)) = 1 /\ Head(obs)[1] \in DOMAIN state_map
          THEN 10 * state_map[Head(obs)[1]] ELSE EMISSION_DEFAULT)
         * EmissionScore(state_map, Tail(obs))

\* trans_map.get(labels[idx], 1.0): the keys of the maps are the labels' values
\* ("IMPORT"), the lookup is by the label itself (HiddenStates.IMPORT)
TransitionBias(transitions, prev_state_idx, idx) ==
    IF HIDDEN_LABELS[idx] \in DOMAIN transitions[prev_state_idx]
    THEN 10 * transitions[prev_state_idx][HIDDEN_LABELS[idx]]
    ELSE TRANSITION_DEFAULT

\* The bias is applied from the second line on, and only with a table
LineScore(emissions, transitions, obs, prev_state_idx, idx) ==
    EmissionScore(emissions[idx], obs)
    * (IF prev_state_idx # 0 /\ transitions # <<>>
       THEN TransitionBias(transitions, prev_state_idx, idx)
       ELSE TRANSITION_DEFAULT)

\* The first index with the highest score: a later one must be strictly better
BestIndex(emissions, transitions, obs, prev_state_idx) ==
    CHOOSE idx \in 1..Len(emissions) :
        /\ \A j \in 1..Len(emissions) :
              LineScore(emissions, transitions, obs, prev_state_idx, j)
                 <= LineScore(emissions, transitions, obs, prev_state_idx, idx)
        /\ \A j \in 1..(idx - 1) :
              LineScore(emissions, transitions, obs, prev_state_idx, j)
                 < LineScore(emissions, transitions, obs, prev_state_idx, idx)

RECURSIVE EmitFrom(_, _, _, _)
EmitFrom(observations, emissions, transitions, prev_state_idx) ==
    IF observations = <<>> THEN <<>>
    ELSE CHOOSE hidden_seq \in
            {<<HIDDEN_LABELS[best_idx]>>
                \o EmitFrom(Tail(observations), emissions, transitions, best_idx) :
             best_idx \in {BestIndex(emissions, transitions, Head(observations),
                                     prev_state_idx)}} : TRUE

emit(observations, emissions, transitions) ==
    EmitFrom(observations, emissions, transitions, 0)

\* The call of emit as a state machine: lines of one observation token each,
\* and for the transitions nothing, the table of observer.py, or that table
\* with the labels themselves as its keys
MaxEmitLines == 3

EmitTokens == {<<"IMPORT">>, <<"OPEN">>, <<"INPUT">>, <<"BOUNDS">>, <<"GENERATE">>, <<"UNKNOWN">>}

EmitObservations == SeqsUpTo({<<token>> : token \in EmitTokens}, MaxEmitLines)

LabelKeyed(transitions) ==
    [prev \in 1..Len(transitions) |->
        [label \in {HIDDEN_LABELS[i] : i \in 1..Len(HIDDEN_LABELS)} |->
            transitions[prev][CHOOSE value \in DOMAIN transitions[prev] :
                                 \E i \in 1..Len(HIDDEN_LABELS) :
                                    /\ HIDDEN_LABELS[i] = label
                                    /\ value = HIDDEN_VALUES[i]]]]

EmitTransitions == {<<>>, transition_probabilities, LabelKeyed(transition_probabilities)}

InitEmit ==
    /\ bridge = <<>>
    /\ disk = <<>>
    /\ function_cooccurrence = <<>>
    /\ observed = <<>>
    /\ lastCall = NoCall
    /\ threads = <<>>
    /\ hmm = <<>>
    /\ explain = <<>>
    /\ embedder = <<>>
    /\ similar = <<>>
    /\ pipeline = <<>>
    /\ heavy = <<>>
    /\ generator = <<>>
    /\ host = <<>>
    /\ decoded = [called |-> FALSE, observations |-> <<>>, transitions |-> <<>>,
                  hidden_seq |-> <<>>]

\* HiddenMarkovModel.emit(observations, emission_probabilities, transitions);
\* a static method that keeps nothing, so one call is explored
Emit ==
    \E observations \in EmitObservations, transitions \in EmitTransitions :
        /\ ~decoded.called
        /\ decoded' = [called |-> TRUE, observations |-> observations,
                       transitions |-> transitions,
                       hidden_seq |-> emit(observations, emission_probabilities,
                                           transitions)]
        /\ UNCHANGED <<function_cooccurrence, observed, lastCall, threads, hmm, explain, embedder, similar, pipeline, heavy, generator, host, disk, bridge>>

SpecEmit == InitEmit /\ [][Emit]_vars

\* markov.py: _get_max_index, a scan from the left that moves to a later index
\* only for a strictly greater value; indices counted from 1 here
RECURSIVE ScanMax(_, _, _, _)
ScanMax(values, i, curr_max, max_indx) ==
    IF i > Len(values) THEN max_indx
    ELSE IF values[i] > curr_max THEN ScanMax(values, i + 1, values[i], i)
    ELSE ScanMax(values, i + 1, curr_max, max_indx)

_get_max_index(values) == ScanMax(values, 1, values[1], 1)

\* transform: the predictor is asked with the last label as its only token
transform(table, hidden_state) ==
    predict_next_functions(table, << <<hidden_state[Len(hidden_state)]>> >>, 3)

\* sorted(state_counts.items(), key=lambda x: -x[1]): states in the order of
\* their first occurrence, then sorted by falling count, equal counts in place
FirstOccurrences(seq) ==
    SelectSeq([i \in 1..Len(seq) |-> [state |-> seq[i], first |-> \A j \in 1..(i - 1) : seq[j] # seq[i],
                                       count |-> Cardinality({j \in 1..Len(seq) : seq[j] = seq[i]})]],
              LAMBDA e : e.first)

RECURSIVE InsertByCount(_, _)
InsertByCount(sorted, x) ==
    IF sorted = <<>> THEN <<x>>
    ELSE IF x.count > Head(sorted).count THEN <<x>> \o sorted
    ELSE <<Head(sorted)>> \o InsertByCount(Tail(sorted), x)

RECURSIVE SortByCount(_, _)
SortByCount(items, n) ==
    IF n = 0 THEN <<>> ELSE InsertByCount(SortByCount(items, n - 1), items[n])

\* _analyze_with_hmm
_analyze_with_hmm(table, code) ==
    LET observed_lines == observe_lines(str_split_lines(str_strip(code)))
    IN  IF observed_lines = <<>>
        THEN [label |-> "No observable patterns detected", states |-> <<>>,
              suggestion |-> <<>>]
        ELSE LET hidden == emit(observed_lines, emission_probabilities,
                                transition_probabilities)
                 counts == FirstOccurrences(hidden)
             IN  [label      |-> "Detected Intent States:",
                  states     |-> [i \in 1..Len(counts) |->
                                    [state |-> SortByCount(counts, Len(counts))[i].state,
                                     count |-> SortByCount(counts, Len(counts))[i].count]],
                  suggestion |-> transform(table, hidden)]

----------------------------------------------------------------------------
(* code_explainer_heavy.py: CodeExplainer.  The modules it imports may be  *)
(* missing (FunctionEmbedder, HiddenMarkovModel and observe_lines are then *)
(* None); the order in which list(set(...)) lists strings depends on the   *)
(* hash seed the process was started with.                                 *)

\* The names of a list, each once, in the order of first occurrence
RECURSIVE Distinct(_)
Distinct(names) ==
    IF names = <<>> THEN <<>>
    ELSE LET rest == Distinct(SubSeq(names, 1, Len(names) - 1))
             last == names[Len(names)]
         IN  IF \E i \in 1..Len(rest) : rest[i] = last THEN rest ELSE rest \o <<last>>

\* Two of the orders a set of strings is listed in, one for each hash seed
HashSeeds == {0, 1}

ListOfSet(names, hash_seed) ==
    IF hash_seed = 0 THEN Distinct(names) ELSE Reverse(Distinct(names))

FUNCTION_LIMIT == 10

\* The lines _analyze_functions appends for one name: the name, and the
\* description of the best record when its similarity is above 0.7; an
\* exception of the query is caught and nothing is appended for it
FunctionEntry(self_embedder, func, encode) ==
    IF self_embedder # <<>> /\ str_in(<<".">>, func)
    THEN LET out == CHOOSE o \in find_similar_functions(self_embedder, encode[func], 1) : TRUE
         IN  IF /\ out.status = "ok"
                /\ out.results # <<>>
                /\ Above(out.results[1].similarity, 7, 10)
             THEN [name |-> func, description |-> <<out.results[1].function.name>>]
             ELSE [name |-> func, description |-> <<>>]
    ELSE [name |-> func, description |-> <<>>]

_analyze_functions(self_embedder, code, encode, hash_seed) ==
    LET matches == findall_calls(code, 1, 0)
    IN  IF matches = <<>>
        THEN [label |-> "No function calls detected", entries |-> <<>>]
        ELSE LET unique_funcs == SliceTo(ListOfSet(matches, hash_seed), FUNCTION_LIMIT)
             IN  [label   |-> "",
                  entries |-> [i \in 1..Len(unique_funcs) |->
                                 FunctionEntry(self_embedder, unique_funcs[i], encode)]]

\* The modules found at import time
Modules == [embedder : BOOLEAN, markov : BOOLEAN]

\* CodeExplainer.__init__: None (the empty list here) without the module
HeavyExplainer(modules, file) ==
    IF ~modules.embedder THEN <<>>
    ELSE IF file.exists THEN load_database(FunctionEmbedder(CORE), file).self
    ELSE FunctionEmbedder(CORE)

\* explain_code: the sections of the explanation, in order; the intent and the
\* functions sections are there only with their modules
explain_code_heavy(modules, self_embedder, table, code, encode, hash_seed) ==
    [raised     |-> "None",
     structure  |-> _analyze_structure(code),
     pseudocode |-> _generate_pseudocode(code),
     intent     |-> IF modules.markov THEN <<_analyze_with_hmm(table, code)>> ELSE <<>>,
     functions  |-> IF self_embedder # <<>>
                    THEN <<_analyze_functions(self_embedder, code, encode, hash_seed)>>
                    ELSE <<>>,
     complexity |-> _analyze_complexity(code)]

----------------------------------------------------------------------------
(* The heavy explainer as a state machine: a process with its modules, its *)
(* database file and its hash seed constructs a CodeExplainer; explain_code *)
(* runs on a source text and runs again on the same text, in the same      *)
(* process or in one started anew.                                         *)

HeavyFiles == {MissingFile, DatabaseFile(<< <<1, 0>> >>)}

HeavyNames == {NAME_OS_LISTDIR, NAME_OS_GETCWD}

\* The embedding model: the same vector for every name, of the stored
\* dimension or not
HeavyEncoders == {[name \in HeavyNames |-> v] : v \in {<<1, 0>>, <<-1, 0>>, <<1, 0, 0>>}}

NoEncoder == [name \in HeavyNames |-> <<>>]

InitHeavy ==
    /\ bridge = <<>>
    /\ disk = <<>>
    /\ decoded = <<>>
    /\ host = <<>>
    /\ generator = <<>>
    /\ function_cooccurrence = <<>>
    /\ observed = <<>>
    /\ lastCall = NoCall
    /\ threads = <<>>
    /\ hmm = <<>>
    /\ explain = <<>>
    /\ similar = <<>>
    /\ pipeline = <<>>
    /\ \E modules \in Modules, hash_seed \in HashSeeds :
          \E file \in (IF modules.embedder THEN HeavyFiles ELSE {MissingFile}),
             encode \in (IF modules.embedder THEN HeavyEncoders ELSE {NoEncoder}) :
              /\ embedder = HeavyExplainer(modules, file)
              /\ heavy = [modules |-> modules, database |-> file, encode |-> encode,
                          hash_seed |-> hash_seed, runs |-> <<>>]

HeavyRun(code) ==
    [source      |-> code,
     hash_seed   |-> heavy.hash_seed,
     explanation |-> explain_code_heavy(heavy.modules, embedder, function_cooccurrence,
                                        code, heavy.encode, heavy.hash_seed)]

HeavyExplain ==
    \E code \in Sources :
        /\ heavy.runs = <<>>
        /\ heavy' = [heavy EXCEPT !.runs = <<HeavyRun(code)>>]
        /\ UNCHANGED <<function_cooccurrence, observed, lastCall, threads, hmm, explain, embedder, similar, pipeline, generator, host, decoded, disk, bridge>>

HeavyExplainAgain ==
    /\ Len(heavy.runs) = 1
    /\ heavy' = [heavy EXCEPT !.runs = @ \o <<HeavyRun(heavy.runs[1].source)>>]
    /\ UNCHANGED <<function_cooccurrence, observed, lastCall, threads, hmm, explain, embedder, similar, pipeline, generator, host, decoded, disk, bridge>>

\* The process ends and another is started on the same files: the explainer is
\* constructed again, the hash seed is drawn again
HeavyRestart ==
    \E hash_seed \in HashSeeds :
        /\ Len(heavy.runs) < 2
        /\ embedder' = HeavyExplainer(heavy.modules, heavy.database)
        /\ heavy' = [heavy EXCEPT !.hash_seed = hash_seed]
        /\ UNCHANGED <<function_cooccurrence, observed, lastCall, threads, hmm, explain, similar, pipeline, generator, host, decoded, disk, bridge>>

HeavyNext == HeavyExplain \/ HeavyExplainAgain \/ HeavyRestart

SpecHeavy == InitHeavy /\ [][HeavyNext]_vars

----------------------------------------------------------------------------
(* The editor's process and its explanation requests.  The plugin of       *)
(* sublimePlugin/codeSuggestor.py keeps a global EXPLAINER; its            *)
(* CodeExplainer is the class of code_explainer.py, which runs every       *)
(* explain_code in a process of the venv, where                            *)
(* code_explainer_heavy.CodeExplainer is constructed.  CodeSuggester.py     *)
(* starts a venv process for every request itself.                         *)

MaxRequests == 3

\* How a process started with Popen ends: Popen raises, the wait runs out and
\* the process is killed, or it exits
VenvOutcomes == {"not started", "timeout", "exit 1", "exit 0"}

\* Whether a process with that outcome got as far as a given statement of its
\* script: never when it did not start, always when it exited with 0
ReachedBy(outcome) ==
    CASE outcome = "not started" -> {FALSE}
      [] outcome = "exit 0" -> {TRUE}
      [] OTHER -> BOOLEAN

NothingConstructed == [models |-> 0, loads |-> 0]

\* code_explainer_heavy.CodeExplainer.__init__: FunctionEmbedder() constructs
\* the SentenceTransformer; load_database when the file exists
RealExplainer(embedder_module, database) ==
    [models |-> IF embedder_module THEN 1 ELSE 0,
     loads  |-> IF embedder_module /\ database THEN 1 ELSE 0]

\* code_explainer.CodeExplainerBridge.explain_code: a venv process whose script
\* does ex = RealExplainer(), ex.explain_code(code)
BridgeExplainCode(h, reached) ==
    IF reached THEN RealExplainer(h.embedder_module, h.database) ELSE NothingConstructed

NoRequest == [request |-> "none", raised |-> "None", initialised |-> FALSE,
              models |-> 0, loads |-> 0]

\* The host after a request that constructed what made says
AfterRequest(h, request, raised, initialised, made) ==
    [h EXCEPT !.EXPLAINER = IF initialised THEN "CodeExplainer" ELSE @,
              !.requests = @ + 1,
              !.models = @ + made.models,
              !.loads = @ + made.loads,
              !.last = [request |-> request, raised |-> raised,
                        initialised |-> initialised,
                        models |-> made.models, loads |-> made.loads]]

InitHost ==
    /\ bridge = <<>>
    /\ disk = <<>>
    /\ decoded = <<>>
    /\ function_cooccurrence = <<>>
    /\ observed = <<>>
    /\ lastCall = NoCall
    /\ threads = <<>>
    /\ hmm = <<>>
    /\ explain = <<>>
    /\ embedder = <<>>
    /\ similar = <<>>
    /\ pipeline = <<>>
    /\ heavy = <<>>
    /\ generator = <<>>
    /\ \E code_explainer \in BOOLEAN, embedder_module \in BOOLEAN, database \in BOOLEAN :
          host = [code_explainer  |-> code_explainer,
                  embedder_module |-> embedder_module,
                  database        |-> database,
                  EXPLAINER       |-> "None",
                  requests        |-> 0,
                  models          |-> 0,
                  loads           |-> 0,
                  last            |-> NoRequest]

\* codeSuggestor.py ExplainCodeCommand._explain_code_async: EXPLAINER is
\* constructed when it is None (a NameError when the import had failed), then
\* EXPLAINER.explain_code(code)
ExplainCodeAsync ==
    \E outcome \in VenvOutcomes :
        \E reached \in ReachedBy(outcome) :
            /\ host.requests < MaxRequests
            /\ host' = IF host.EXPLAINER = "None" /\ ~host.code_explainer
                       THEN AfterRequest(host, "explain", "NameError", FALSE,
                                         NothingConstructed)
                       ELSE AfterRequest(host, "explain", "None",
                                         host.EXPLAINER = "None",
                                         BridgeExplainCode(host, reached))
            /\ UNCHANGED <<function_cooccurrence, observed, lastCall, threads, hmm, explain, embedder, similar, pipeline, heavy, generator, decoded, disk, bridge>>

\* codeSuggestor.py ShowFunctionInfoCommand._show_info_async: the same lazy
\* construction, then EXPLAINER.embedder, which the class of code_explainer.py
\* does not have
ShowInfoAsync ==
    /\ host.requests < MaxRequests
    /\ host' = IF host.EXPLAINER = "None" /\ ~host.code_explainer
               THEN AfterRequest(host, "info", "NameError", FALSE, NothingConstructed)
               ELSE AfterRequest(host, "info", "AttributeError",
                                 host.EXPLAINER = "None", NothingConstructed)
    /\ UNCHANGED <<function_cooccurrence, observed, lastCall, threads, hmm, explain, embedder, similar, pipeline, heavy, generator, decoded, disk, bridge>>

\* CodeSuggester.py ExplainCodeCommand._explain_async: a venv process whose
\* script does explainer = CodeExplainer(), explainer.explain_code(code); that
\* explain_code starts the process of BridgeExplainCode
ExplainAsync ==
    \E outcome \in VenvOutcomes, inner \in VenvOutcomes :
        \E reached \in ReachedBy(outcome), inner_reached \in ReachedBy(inner) :
            /\ host.requests < MaxRequests
            /\ host' = AfterRequest(host, "bridged explain", "None", FALSE,
                                    IF reached
                                    THEN BridgeExplainCode(host, inner_reached)
                                    ELSE NothingConstructed)
            /\ UNCHANGED <<function_cooccurrence, observed, lastCall, threads, hmm, explain, embedder, similar, pipeline, heavy, generator, decoded, disk, bridge>>

HostNext == ExplainCodeAsync \/ ShowInfoAsync \/ ExplainAsync

SpecHost == InitHost /\ [][HostNext]_vars

----------------------------------------------------------------------------

(* embedder.py: building, saving and loading the database on one           *)
(* FunctionEmbedder.  A library info file is the list of its 'Function: '  *)
(* sections; the embedding model gives each text its vector.               *)

\* The sections a library info file may hold: two functions, and a section
\* without a description
LibrarySections ==
    {[name |-> "os.getcwd", description |-> "Return the current working directory"],
     [name |-> "os.listdir", description |-> "Return the entries of a directory"],
     [name |-> "os.sep", description |-> ""]}

MaxSections == 2

LibraryFiles == SeqsUpTo(LibrarySections, MaxSections)

\* The records the database is explored up to
MaxDatabase == 3

\* _parse_library_info: a record for every section with a name and a description
_parse_library_info(sections) ==
    SelectSeq(sections, LAMBDA section : section.name # "" /\ section.description # "")

\* self.model.encode of the text "name: description"
ModelEncode(func) ==
    IF func.name = "os.getcwd" THEN <<1, 0>> ELSE <<-1, 0>>

\* build_function_database: every parsed record is appended to
\* self.function_database; self.embeddings becomes the embeddings of the texts
\* of this call
build_function_database(self, sections) ==
    [self EXCEPT !.function_database = @ \o _parse_library_info(sections),
                 !.embeddings =
                     Embeddings([i \in 1..Len(_parse_library_info(sections)) |->
                                    ModelEncode(_parse_library_info(sections)[i])])]

\* save_database: 'functions' and 'embeddings', [] for embeddings of None
save_database(self) ==
    [exists     |-> TRUE,
     functions  |-> self.function_database,
     embeddings |-> IF self.embeddings.given THEN self.embeddings.rows ELSE <<>>,
     entries    |-> <<>>]

InitDatabase ==
    /\ bridge = <<>>
    /\ function_cooccurrence = <<>>
    /\ observed = <<>>
    /\ lastCall = NoCall
    /\ threads = <<>>
    /\ hmm = <<>>
    /\ explain = <<>>
    /\ pipeline = <<>>
    /\ heavy = <<>>
    /\ generator = <<>>
    /\ host = <<>>
    /\ decoded = <<>>
    /\ embedder = FunctionEmbedder(CORE)
    /\ similar = NotAsked
    /\ disk = MissingFile

\* embedder.build_function_database(library_info_file)
BuildFunctionDatabase ==
    \E sections \in LibraryFiles :
        /\ Len(embedder.function_database) + Len(_parse_library_info(sections))
              <= MaxDatabase
        /\ embedder' = build_function_database(embedder, sections)
        /\ similar' = [NotAsked EXCEPT !.op = "build_function_database",
                                       !.returned = TRUE]
        /\ UNCHANGED <<function_cooccurrence, observed, lastCall, threads, hmm, explain, pipeline, heavy, generator, host, decoded, disk, bridge>>

\* embedder.save_database(output_path)
SaveDatabase ==
    /\ disk' = save_database(embedder)
    /\ similar' = [NotAsked EXCEPT !.op = "save_database", !.returned = TRUE]
    /\ UNCHANGED <<function_cooccurrence, observed, lastCall, threads, hmm, explain, embedder, pipeline, heavy, generator, host, decoded, bridge>>

\* embedder.load_database(database_path)
LoadSavedDatabase ==
    /\ embedder' = load_database(embedder, disk).self
    /\ similar' = [NotAsked EXCEPT !.op = "load_database",
                                   !.returned = load_database(embedder, disk).returned]
    /\ UNCHANGED <<function_cooccurrence, observed, lastCall, threads, hmm, explain, pipeline, heavy, generator, host, decoded, disk, bridge>>

\* embedder.find_similar_functions(query, top_k=1)
FindInDatabase ==
    \E func \in LibrarySections :
        \E out \in find_similar_functions(embedder, ModelEncode(func), 1) :
            /\ similar' = [NotAsked EXCEPT !.op = "find_similar_functions",
                                           !.query_embedding = ModelEncode(func),
                                           !.top_k = 1,
                                           !.status = out.status,
                                           !.results = out.results]
            /\ UNCHANGED <<function_cooccurrence, observed, lastCall, threads, hmm, explain, embedder, pipeline, heavy, generator, host, decoded, disk, bridge>>

DatabaseNext ==
    BuildFunctionDatabase \/ SaveDatabase \/ LoadSavedDatabase \/ FindInDatabase

SpecDatabase == InitDatabase /\ [][DatabaseNext]_vars

----------------------------------------------------------------------------

(* CodeSuggester.py: ExplainCodeCommand.  run opens the explanation view   *)
(* and queues _explain_async for the editor's async thread; _explain_async *)
(* starts the venv process, polls it, and queues _show_explanation or      *)
(* _show_error for the main thread.  The child runs beside the poll loop,  *)
(* so the loop is modelled a turn at a time.                               *)

\* explanation_view.run_command('append', ...) of run
WAIT_TEXT == "Analyzing your code, please wait..."

\* timeout of _explain_async, in seconds
TIMEOUT == 30

\* The seconds one turn of the poll loop is taken to last
SleepSeconds == 11

\* The explanations asked for in one behaviour
MaxViews == 2

\* window.new_file(), with the history of the view: the callbacks scheduled
\* for it, how many of them ran, how its process ended, whether it was killed
new_file ==
    [name |-> "untitled", scratch |-> FALSE, read_only |-> FALSE, text |-> <<>>,
     scheduled |-> <<>>, ran |-> 0, outcome |-> "", killed |-> FALSE]

\* The view as run leaves it
ProcessingView ==
    [new_file EXCEPT !.name = "Code Explanation - Processing...",
                     !.scratch = TRUE,
                     !.text = <<WAIT_TEXT>>]

\* _show_explanation: the view is made writable, emptied, filled, made read-only
_show_explanation(view, explanation) ==
    [view EXCEPT !.name = "Code Explanation",
                 !.text = <<explanation>>,
                 !.read_only = TRUE]

\* A _show_error that adds its text to what the view shows
_show_error_appended(view, error) ==
    [view EXCEPT !.name = "Code Explanation - Error",
                 !.text = @ \o <<"Error generating explanation:", error>>,
                 !.read_only = TRUE]

\* _show_error: the view is made writable, emptied, filled, made read-only
_show_error(view, error) ==
    [view EXCEPT !.name = "Code Explanation - Error",
                 !.text = <<"Error generating explanation:", error>>,
                 !.read_only = TRUE]

\* The async thread between two _explain_async
NoJob ==
    [view |-> 0, process |-> "none", returncode |-> 0, decodable |-> TRUE,
     elapsed |-> 0]

\* _explain_async returns after sublime.set_timeout(lambda: fn(view, text), 0)
Scheduled(b, fn, text, outcome, killed) ==
    [b EXCEPT !.main = Append(@, [fn |-> fn, view |-> b.job.view, text |-> text]),
              !.views[b.job.view].scheduled = Append(@, fn),
              !.views[b.job.view].outcome = outcome,
              !.views[b.job.view].killed = killed,
              !.job = NoJob]

\* The async thread takes the next _explain_async; subprocess.Popen has started
\* the process or has raised
TakeJob(b, started) ==
    [b EXCEPT !.async = Tail(@),
              !.job = [NoJob EXCEPT !.view = Head(b.async),
                                    !.process = IF started THEN "running"
                                                ELSE "none"]]

\* One turn of `while process.poll() is None`, and the code after the loop
PollTurn(b) ==
    IF b.job.process = "running"
    THEN IF b.job.elapsed > TIMEOUT
         THEN Scheduled(b, "_show_error", "Explanation timed out after 30 seconds",
                        "timed out", TRUE)
         ELSE [b EXCEPT !.job.elapsed = @ + SleepSeconds]
    ELSE IF ~b.job.decodable
         THEN Scheduled(b, "_show_error", "Error: UnicodeDecodeError",
                        "undecodable", FALSE)
         ELSE IF b.job.returncode = 0
              THEN Scheduled(b, "_show_explanation", "CODE EXPLANATION",
                             "exit 0", FALSE)
              ELSE Scheduled(b, "_show_error", "Traceback", "exit 1", FALSE)

\* The main thread calls what set_timeout queued
Callback(h, view) ==
    IF h.fn = "_show_explanation"
    THEN _show_explanation([view EXCEPT !.ran = @ + 1], h.text)
    ELSE _show_error([view EXCEPT !.ran = @ + 1], h.text)

InitBridge ==
    /\ bridge = [views |-> <<>>, async |-> <<>>, job |-> NoJob, main |-> <<>>]
    /\ function_cooccurrence = <<>>
    /\ observed = <<>>
    /\ lastCall = NoCall
    /\ threads = <<>>
    /\ hmm = <<>>
    /\ explain = <<>>
    /\ embedder = <<>>
    /\ similar = <<>>
    /\ pipeline = <<>>
    /\ heavy = <<>>
    /\ generator = <<>>
    /\ host = <<>>
    /\ decoded = <<>>
    /\ disk = <<>>

\* ExplainCodeCommand.run, on a selection or file that is empty or not, in a
\* view that has a window or not
RunExplainCode ==
    /\ Len(bridge.views) < MaxViews
    /\ \E code \in {"", "import os"}, window \in BOOLEAN :
        bridge' = IF code = "" \/ ~window
                  THEN bridge
                  ELSE [bridge EXCEPT !.views = Append(@, ProcessingView),
                                      !.async = Append(@, Len(bridge.views) + 1)]
    /\ UNCHANGED <<function_cooccurrence, observed, lastCall, threads, hmm, explain, embedder, similar, pipeline, heavy, generator, host, decoded, disk>>

\* _explain_async up to the poll loop
ExplainAsyncStart ==
    /\ bridge.job.view = 0
    /\ bridge.async # <<>>
    /\ \E started \in BOOLEAN :
        bridge' = IF started
                  THEN TakeJob(bridge, TRUE)
                  ELSE Scheduled(TakeJob(bridge, FALSE), "_show_error",
                                 "Error: FileNotFoundError", "failed to start", FALSE)
    /\ UNCHANGED <<function_cooccurrence, observed, lastCall, threads, hmm, explain, embedder, similar, pipeline, heavy, generator, host, decoded, disk>>

\* The venv process ends by itself, with an exit code and an output that is
\* UTF-8 or not
ChildExits ==
    /\ bridge.job.process = "running"
    /\ \E returncode \in {0, 1}, decodable \in BOOLEAN :
        bridge' = [bridge EXCEPT !.job.process = "exited",
                                 !.job.returncode = returncode,
                                 !.job.decodable = decodable]
    /\ UNCHANGED <<function_cooccurrence, observed, lastCall, threads, hmm, explain, embedder, similar, pipeline, heavy, generator, host, decoded, disk>>

\* _explain_async from the poll loop on
PollProcess ==
    /\ bridge.job.process \in {"running", "exited"}
    /\ bridge' = PollTurn(bridge)
    /\ UNCHANGED <<function_cooccurrence, observed, lastCall, threads, hmm, explain, embedder, similar, pipeline, heavy, generator, host, decoded, disk>>

\* The main thread runs the callback at the head of its queue
MainThreadCallback ==
    /\ bridge.main # <<>>
    /\ bridge' = [bridge EXCEPT
                    !.main = Tail(@),
                    !.views[Head(bridge.main).view] = Callback(Head(bridge.main), @)]
    /\ UNCHANGED <<function_cooccurrence, observed, lastCall, threads, hmm, explain, embedder, similar, pipeline, heavy, generator, host, decoded, disk>>

BridgeNext ==
    RunExplainCode \/ ExplainAsyncStart \/ ChildExits \/ PollProcess
        \/ MainThreadCallback

\* The async thread and the main thread run what is queued for them, and the
\* poll loop goes on turning; the child may never end
SpecBridge ==
    /\ InitBridge
    /\ [][BridgeNext]_vars
    /\ WF_vars(ExplainAsyncStart)
    /\ WF_vars(PollProcess)
    /\ WF_vars(MainThreadCallback)

----------------------------------------------------------------------------

(* Claims about the predictor                                              *)

PriorFunction(tokens) == last_func_of(Reverse(tokens))

Includes(result, g) ==
    \E i \in 1..Len(result) :
        /\ result[i].function = g
        /\ result[i].score.num > 0 /\ result[i].score.den > 0

\* C2: suggest returns a non-empty list for every input (no tokens, no FUNC
\* token, an empty or never-observed function name, top_k of 0 or below), and
\* for a prior function with no row in the table it returns the fixed fallback.
C2_SuggestNeverEmpty ==
    lastCall.op = "suggest" =>
        /\ lastCall.result # <<>>
        /\ PriorFunction(lastCall.tokens) \notin DOMAIN function_cooccurrence
              => lastCall.result = FALLBACK

C2_Witness ==
    /\ lastCall.op = "suggest"
    /\ lastCall.top_k = 0
    /\ lastCall.tokens = << FuncToken("a") >>
    /\ "a" \in DOMAIN function_cooccurrence
    /\ lastCall.result = FALLBACK

\* C3: every observe raises weight[f][g] by the learning rate times the number
\* of adjacencies of (f, g) in its input and changes nothing else: the table
\* always holds, for each pair, the learning rate times the adjacencies
\* observed so far, and holds no entry for any other name.
C3_ObserveAddsExactly ==
    /\ \A f \in FuncNames, g \in FuncNames :
          Weight(function_cooccurrence, f, g)
              = COOCCURRENCE_LEARNING_RATE * observed[<<f, g>>]
    /\ DOMAIN function_cooccurrence \subseteq FuncNames
    /\ \A f \in DOMAIN function_cooccurrence :
          \A i \in 1..Len(function_cooccurrence[f]) :
              /\ function_cooccurrence[f][i].fn \in FuncNames
              /\ function_cooccurrence[f][i].w > 0

C3_Witness ==
    /\ lastCall.op = "observe"
    /\ observed[<<"a", "b">>] = 4
    /\ observed[<<"a", "a">>] = 1
    /\ observed[<<"b", "a">>] = 0
    /\ Weight(function_cooccurrence, "a", "b") = 4 * COOCCURRENCE_LEARNING_RATE

\* C4 as claimed: once b was observed in the window after a, every later
\* suggest for a (top_k >= 1) includes b with a positive score.
C4_Original ==
    (lastCall.op = "suggest" /\ lastCall.top_k >= 1) =>
        \A a \in FuncNames, b \in FuncNames :
            (PriorFunction(lastCall.tokens) = a /\ observed[<<a, b>>] > 0)
                => Includes(lastCall.result, b)

\* C4 as amended: once b was observed in the window after a, every later
\* suggest for a whose top_k is at least the number of distinct functions
\* recorded after a includes b with a positive score.
C4_SuggestIncludesObserved ==
    lastCall.op = "suggest" =>
        \A a \in FuncNames, b \in FuncNames :
            ( /\ PriorFunction(lastCall.tokens) = a
              /\ observed[<<a, b>>] > 0
              /\ lastCall.top_k >= Len(function_cooccurrence[a]) )
                => Includes(lastCall.result, b)

C4_Witness ==
    /\ lastCall.op = "suggest"
    /\ lastCall.top_k = 2
    /\ PriorFunction(lastCall.tokens) = "a"
    /\ observed[<<"a", "b">>] > 0
    /\ observed[<<"a", "a">>] > observed[<<"a", "b">>]
    /\ Len(lastCall.result) = 2
    /\ lastCall.result[2].function = "b"

\* C27: a suggest leaves the table as it was, also for a prior function that
\* has no row: no weight is changed and no row is added
C27_SuggestLeavesTable ==
    [][lastCall'.op = "suggest" => function_cooccurrence' = function_cooccurrence]_vars

\* A suggest for a function without a row, on a table that holds other rows
C27_Witness ==
    /\ lastCall.op = "suggest"
    /\ PriorFunction(lastCall.tokens) = "never_seen"
    /\ function_cooccurrence # <<>>
    /\ "never_seen" \notin DOMAIN function_cooccurrence

\* C30: a suggest with top_k >= 1 returns at most top_k suggestions, each with
\* a positive score, whether the prior function has a row or not
C30_AtMostTopKPositive ==
    (lastCall.op = "suggest" /\ lastCall.top_k >= 1) =>
        /\ Len(lastCall.result) <= lastCall.top_k
        /\ \A i \in 1..Len(lastCall.result) :
              /\ lastCall.result[i].score.num > 0
              /\ lastCall.result[i].score.den > 0

\* C1: when threads run observe concurrently no increment is lost: once all of
\* them have finished, every weight is the learning rate times the number of
\* adjacencies observed by all threads together (the table started empty).
C1_NoLostIncrement ==
    AllThreadsDone =>
        \A f \in FuncNames, g \in FuncNames :
            Weight(function_cooccurrence, f, g)
                = COOCCURRENCE_LEARNING_RATE * observed[<<f, g>>]

----------------------------------------------------------------------------
(* Claims about the classifier                                             *)

\* The numerator of emission(o)[s]: the matrix column for a known observation,
\* the uniform fallback otherwise
EmissionNum(h, o, s) ==
    IF h.emission.given /\ \E k \in 1..Len(h.observable_states) : h.observable_states[k] = o
    THEN h.emission.nums[s][CHOOSE k \in 1..Len(h.observable_states) :
                                h.observable_states[k] = o]
    ELSE 1

\* The joint score of a path of state indices, as the product of numerators:
\* initial[p1] * emission(o1)[p1] * prod transition[p(t-1), p(t)] * emission(ot)[pt]
RECURSIVE PathScore(_, _, _, _)
PathScore(h, obs, q, t) ==
    IF t = 1 THEN EmissionNum(h, obs[1], q[1])
    ELSE PathScore(h, obs, q, t - 1)
         * h.transition.nums[q[t - 1]][q[t]] * EmissionNum(h, obs[t], q[t])

C6_FileMarkerFavoursFileOperation ==
    ( /\ explain.called
      /\ ~hmm.emission.given
      /\ \E i \in 1..Len(explain.tokens) : explain.tokens[i] = TOKEN_OS_LISTDIR )
    => \E h \in {hmm} :
         \E used \in {_get_emission_probs(h,
                        _get_observation_index(h, map_token(TOKEN_OS_LISTDIR)))} :
            \A s \in 1..h.n_hidden :
                h.hidden_states[s] # "FILE_OPERATION"
                    => used.nums[IndexOf(h.hidden_states, "FILE_OPERATION")] > used.nums[s]

\* C7: predict on an empty token list returns an empty state sequence and the
\* "no tokens" summary, and the generator makes an explanation from that result.
C7_EmptyInputExplained ==
    (explain.called /\ explain.tokens = <<>>) =>
        /\ "states" \in DOMAIN explain.hmm_result
        /\ explain.hmm_result["states"] = <<>>
        /\ "summary" \in DOMAIN explain.hmm_result
        /\ explain.hmm_result["summary"].text = "No code tokens found"
        /\ explain.explanation.status = "ok"
        /\ explain.explanation.intent = explain.hmm_result["summary"]

C7_Witness ==
    /\ explain.called
    /\ explain.tokens = <<>>
    /\ explain.explanation.status = "ok"
    /\ explain.explanation.dominant = "Unknown"
    /\ explain.explanation.pattern = "Pattern: General Operations"

RECURSIVE SumFields(_, _)
SumFields(row, keys) ==
    IF keys = {} THEN 0
    ELSE LET k == CHOOSE k \in keys : TRUE IN row[k] + SumFields(row, keys \ {k})

\* C8: every row of the transition table and of the emission table of a
\* classifier sums to 1, and so does every row of the tables of observer.py.
C8_RowsSumToOne ==
    /\ \A i \in 1..Len(hmm.transition.nums) :
          SumSeq(hmm.transition.nums[i]) = hmm.transition.den
    /\ hmm.emission.given =>
          \A i \in 1..Len(hmm.emission.nums) :
              SumSeq(hmm.emission.nums[i]) = hmm.emission.den
    /\ \A i \in 1..Len(emission_probabilities) :
          SumFields(emission_probabilities[i], DOMAIN emission_probabilities[i]) = 10
    /\ \A i \in 1..Len(transition_probabilities) :
          SumFields(transition_probabilities[i], DOMAIN transition_probabilities[i]) = 10

Occurrences(path, label) == Cardinality({t \in 1..Len(path) : path[t] = label})

FirstOccurrence(path, label) ==
    CHOOSE t \in 1..Len(path) : path[t] = label /\ \A u \in 1..(t - 1) : path[u] # label

\* C9: for a non-empty decoded path dominant_state is a label of the highest
\* frequency in the path, among labels of that frequency the one occurring
\* first in the path, and the summary names the same label.
C9_DominantIsFirstMode ==
    (explain.called /\ explain.tokens # <<>>) =>
        \E path \in {explain.hmm_result.states}, d \in {explain.hmm_result.dominant_state} :
            /\ \E t \in 1..Len(path) : path[t] = d
            /\ \A t \in 1..Len(path) :
                  /\ Occurrences(path, path[t]) <= Occurrences(path, d)
                  /\ Occurrences(path, path[t]) = Occurrences(path, d)
                        => FirstOccurrence(path, d) <= t
            /\ explain.hmm_result.summary.primary = Title(d)

C9_Witness ==
    /\ explain.called
    /\ explain.hmm_result.states = <<"ERROR_HANDLING", "FILE_OPERATION">>
    /\ explain.hmm_result.dominant_state = "ERROR_HANDLING"
    /\ explain.hmm_result.summary.primary = "Error Handling"

\* The lowest index among those holding the greatest value of v
IsLowestMaximiser(v, i) ==
    /\ \A k \in 1..Len(v) : v[k] <= v[i]
    /\ \A k \in 1..Len(v) : v[k] = v[i] => i <= k

\* viterbi_matrix[:, t-1] * transition[:, s]
TransProbs(h, prev, s) == [p \in 1..h.n_hidden |-> prev[p] * h.transition.nums[p][s]]

Tied(v) == \E i, k \in 1..Len(v) : i # k /\ IsLowestMaximiser(v, i) /\ v[k] = v[i]

\* C21: in the decoding every backpointer is the lowest-indexed predecessor
\* among those with the greatest product V[prev, t-1] * transition[prev, s],
\* the backtrack starts from the lowest-indexed state among those with the
\* greatest V[s, T-1] and follows the backpointers; the left-to-right scan of
\* _get_max_index picks the same indices.
C21_TiesGoToLowestIndex ==
    (explain.called /\ explain.tokens # <<>>) =>
        \E h \in {hmm}, obs \in {_map_tokens_to_observations(explain.tokens)} :
            \E cols \in {Forward(h, obs, Len(obs))},
               path \in {[t \in 1..Len(obs) |->
                            IndexOf(h.hidden_states, explain.hmm_result.states[t])]} :
                /\ \A t \in 2..Len(obs) : \A s \in 1..h.n_hidden :
                      /\ IsLowestMaximiser(TransProbs(h, cols[t - 1].v, s), cols[t].b[s])
                      /\ _get_max_index(TransProbs(h, cols[t - 1].v, s)) = cols[t].b[s]
                /\ IsLowestMaximiser(cols[Len(obs)].v, path[Len(obs)])
                /\ _get_max_index(cols[Len(obs)].v) = path[Len(obs)]
                /\ \A t \in 1..(Len(obs) - 1) : path[t] = cols[t + 1].b[path[t + 1]]

C21_Witness ==
    /\ explain.called
    /\ Len(explain.tokens) >= 2
    /\ \E h \in {hmm}, obs \in {_map_tokens_to_observations(explain.tokens)} :
          \E cols \in {Forward(h, obs, Len(obs))} :
              /\ Tied(cols[Len(obs)].v)
              /\ \E s \in 1..h.n_hidden : Tied(TransProbs(h, cols[Len(obs) - 1].v, s))
              /\ \E s \in 1..h.n_hidden :
                    /\ ~Tied(TransProbs(h, cols[Len(obs) - 1].v, s))
                    /\ cols[Len(obs)].b[s] > 1

----------------------------------------------------------------------------
(* Claims about the matcher                                                *)

StrictlyDescending(results) ==
    \A i \in 1..(Len(results) - 1) :
        Less(results[i + 1].similarity, results[i].similarity)

\* C10: on a loaded knowledge base, for every top_k >= 0, a similarity query
\* returns at most top_k results, and their similarities are strictly descending.
C10_AtMostTopKStrictlyDescending ==
    ( /\ similar.op = "find_similar_functions"
      /\ similar.status = "ok"
      /\ embedder.embeddings.given
      /\ similar.top_k >= 0 )
    => /\ Len(similar.results) <= similar.top_k
       /\ StrictlyDescending(similar.results)

\* The similarity the embedder's class computes for record i and a query
SimilarityOf(self, query_embedding, i) ==
    IF self.impl = CORE
    THEN _cosine_similarity(query_embedding, self.embeddings.rows)[i]
    ELSE _cosine_sim(query_embedding, self.embeddings.rows[i])

SameSimilarity(x, y) == ~x.nan /\ ~y.nan /\ x.num * y.den = y.num * x.den

\* The position of record i in a result list, 0 when it is not returned
PositionOf(results, i) ==
    IF \E r \in 1..Len(results) : results[r].function.name = i
    THEN CHOOSE r \in 1..Len(results) : results[r].function.name = i
    ELSE 0

\* C11: records of equal similarity are returned in record order, lower index
\* first, and the truncation to top_k keeps the earlier of the tied records: a
\* returned record is preceded in the result by every lower-indexed record of the
\* same similarity.
C11_TiesInRecordOrder ==
    ( /\ similar.op = "find_similar_functions"
      /\ similar.status = "ok"
      /\ similar.top_k >= 1 )
    => \A r \in 1..Len(similar.results) :
         \A j \in 1..(similar.results[r].function.name - 1) :
            SameSimilarity(SimilarityOf(embedder, similar.query_embedding, j),
                           similar.results[r].similarity)
            => /\ PositionOf(similar.results, j) # 0
               /\ PositionOf(similar.results, j) < r

\* C12: when the query embedding or a stored embedding has zero norm the
\* similarity of that pair is 0, and no nan similarity is returned.
C12_ZeroNormGivesZero ==
    ( /\ similar.op = "find_similar_functions"
      /\ similar.status = "ok" )
    => \A r \in 1..Len(similar.results) :
         /\ ~similar.results[r].similarity.nan
         /\ ( \/ Dot(similar.query_embedding, similar.query_embedding) = 0
              \/ \E row \in {embedder.embeddings.rows[similar.results[r].function.name]} :
                    Dot(row, row) = 0 )
            => similar.results[r].similarity = Zero

----------------------------------------------------------------------------
(* Claims about the pipeline                                               *)

CallSteps(run) == {i \in 1..Len(run.steps) : run.steps[i].op = "call"}

C15_ParseFailureGivesEmptyFacts ==
    pipeline.run.called /\ ast_parse(pipeline.run.source).raised # "None" =>
        /\ pipeline.run.raised = "None"
        /\ pipeline.run.code_summary = NoSummaryOfCode
        /\ pipeline.run.explanation.status = "ok"

----------------------------------------------------------------------------
(* Claims about the pseudocode generator                                   *)

\* The last generate_explanation returned its steps
Generated == generator.last.called /\ generator.last.raised = "None"

\* The non-import facts in the order they are collected: calls, assignments,
\* control structures
MergedFacts(code_summary) ==
       [i \in 1..Len(code_summary.function_calls) |->
           [op |-> "call", lineno |-> code_summary.function_calls[i].lineno]]
    \o [i \in 1..Len(code_summary.assignments) |->
           [op |-> "assign", lineno |-> code_summary.assignments[i].lineno]]
    \o [i \in 1..Len(code_summary.control_flow) |->
           [op |-> "control", lineno |-> code_summary.control_flow[i].lineno]]

\* Where a stable sort by line number puts fact i: after every fact of a lower
\* line, and after the facts of its own line that were collected before it
StablePosition(facts, i) ==
    1 + Cardinality({j \in 1..Len(facts) :
                        \/ facts[j].lineno < facts[i].lineno
                        \/ facts[j].lineno = facts[i].lineno /\ j < i})

\* C22: the steps of the imports come first, one per import in the order of
\* the imports; after them every call, assignment and control structure has
\* exactly one step, the steps are in non-decreasing order of line number, and
\* facts of one line are in the order they were collected in
C22_ImportsThenFactsInLineOrder ==
    Generated =>
        LET code_summary == generator.last.code_summary
            steps   == generator.last.steps
            imports == Len(code_summary.imports)
            facts   == MergedFacts(code_summary)
        IN  /\ Len(steps) = imports + Len(facts)
            /\ \A k \in 1..imports :
                  /\ steps[k].op = "import"
                  /\ steps[k].wording.arg = code_summary.imports[k].module
            /\ \A i \in 1..Len(facts) :
                  /\ steps[imports + StablePosition(facts, i)].op = facts[i].op
                  /\ steps[imports + StablePosition(facts, i)].lineno = facts[i].lineno
            /\ \A k \in (imports + 1)..(Len(steps) - 1) :
                  steps[k].lineno <= steps[k + 1].lineno

\* A control structure of line 1 is collected after a call and an assignment
\* of line 2, and is rendered before them; the two keep their order
C22_Witness ==
    /\ Generated
    /\ LET facts == MergedFacts(generator.last.code_summary)
       IN  /\ \E i, j \in 1..Len(facts) : i < j /\ facts[i].lineno > facts[j].lineno
           /\ \E i, j \in 1..Len(facts) : i < j /\ facts[i].lineno = facts[j].lineno
    /\ generator.last.code_summary.imports = <<>>
    /\ generator.last.steps[1].op = "control"

\* C23: the indent of a step is the number of steps of block-opening control
\* structures before it, so it never decreases from one step to the next
C23_IndentCountsOpenedBlocks ==
    Generated =>
        LET steps == generator.last.steps
        IN  /\ \A k \in 1..Len(steps) :
                  steps[k].indent =
                      Cardinality({j \in 1..(k - 1) :
                                      /\ steps[j].op = "control"
                                      /\ steps[j].wording.text # "Execute"})
            /\ \A k \in 1..(Len(steps) - 1) : steps[k].indent <= steps[k + 1].indent

\* Two loops have been rendered: the second is indented once, and nothing
\* after the first is at indent 0
C23_Witness ==
    /\ Generated
    /\ Len(generator.last.steps) = 2
    /\ generator.last.steps[1].op = "control"
    /\ generator.last.steps[2].op = "control"
    /\ generator.last.steps[2].indent = 1

\* C24: the steps of a call are numbered 1, 2, ..., N in the order of the
\* output, N being the number of imports, calls, assignments and control
\* structures, whatever the counter was when the call began
C24_StepsNumberedFromOne ==
    Generated =>
        LET code_summary == generator.last.code_summary
            steps == generator.last.steps
        IN  /\ Len(steps) = Len(code_summary.imports) + Len(code_summary.function_calls)
                            + Len(code_summary.assignments) + Len(code_summary.control_flow)
            /\ \A k \in 1..Len(steps) : steps[k].step = k
            /\ generator.self.step_counter = Len(steps)

\* A second call on a generator whose counter the first call left above 0
C24_Witness ==
    /\ Generated
    /\ generator.calls = 2
    /\ generator.counter_at_call > 0
    /\ Len(generator.last.steps) > 1

----------------------------------------------------------------------------
(* Claims about the heavy explainer                                        *)

Runs == {heavy.runs[r] : r \in 1..Len(heavy.runs)}

\* The names explain_code asks the matcher about: the dotted names listed
AskedNames(run) ==
    IF run.explanation.functions = <<>> THEN {}
    ELSE LET entries == run.explanation.functions[1].entries
         IN  {entries[i].name : i \in {k \in 1..Len(entries) :
                                          str_in(<<".">>, entries[k].name)}}

DimensionMismatch(self_embedder, query_embedding) ==
    /\ self_embedder # <<>>
    /\ self_embedder.embeddings.given
    /\ \E i \in 1..Len(self_embedder.embeddings.rows) :
          Len(self_embedder.embeddings.rows[i]) # Len(query_embedding)

\* C13: when the embedding of a query has another dimension than the stored
\* embeddings, the similarity query ends in an error that reaches the caller
\* of explain_code; it is not turned into a match list, not reported as no
\* match and not dropped.
C13_DimensionMismatchReachesCaller ==
    \A run \in Runs :
        (\E name \in AskedNames(run) : DimensionMismatch(embedder, heavy.encode[name]))
            => run.explanation.raised # "None"

\* C16: for a source text with unbalanced syntax the explanation has its
\* structure section and every count in that section is 0.
C16_MalformedSourceCountsZero ==
    \A run \in Runs :
        ast_parse(run.source).raised = "SyntaxError" =>
            LET structure == run.explanation.structure
            IN  /\ structure.total_lines = 0
                /\ structure.code_lines = 0
                /\ structure.imports = 0
                /\ structure.functions = 0
                /\ structure.classes = 0

\* C17: two runs of explain_code on the same source text, with the same
\* database and the same co-occurrence table, return the same explanation,
\* the functions listed and their order included.
C17_SameInputsSameExplanation ==
    Len(heavy.runs) = 2 /\ heavy.runs[1].source = heavy.runs[2].source =>
        heavy.runs[1].explanation = heavy.runs[2].explanation

\* C18: when the matcher or the classifier is not available (module missing,
\* database missing), the explanation still has the section of that
\* component, and the section carries a label saying so instead of the usual
\* content.
C18_DegradedSectionsLabelled ==
    \A run \in Runs :
        LET intent    == run.explanation.intent
            functions == run.explanation.functions
        IN  /\ Len(intent) = 1
            /\ Len(functions) = 1
            /\ ~heavy.modules.markov => intent[1].label # "Detected Intent States:"
            /\ ~heavy.modules.embedder \/ ~heavy.database.exists =>
                  functions[1].label # ""

\* The loop statements of a source text that parses
LoopConstructs(code) == Len(get_control_flow(FileManager(code)))

\* C19: a source text with two or more loop statements, for or while in any
\* mix, is estimated "O(n²) or higher"; one with exactly one loop statement
\* is estimated "O(n)".
C19_TwoLoopsAreNested ==
    \A run \in Runs :
        ast_parse(run.source).raised = "None" =>
            /\ LoopConstructs(run.source) >= 2 =>
                  run.explanation.complexity.complexity = O_NESTED
            /\ LoopConstructs(run.source) = 1 =>
                  run.explanation.complexity.complexity = O_LOOP

FunctionDefs(code) == Nodes(FileManager(code), {"FunctionDef"})

\* A function definition whose body calls the function's own name
CallsItself(def) ==
    \E k \in 1..Len(Walk(def.body)) :
        /\ Walk(def.body)[k].type = "Call"
        /\ Walk(def.body)[k].func.type = "Name"
        /\ Walk(def.body)[k].func.id = def.name

Recursive(code) ==
    \E d \in 1..Len(FunctionDefs(code)) : CallsItself(FunctionDefs(code)[d])

RecursionHint(run) ==
    \E a \in 1..Len(run.explanation.complexity.algorithms) :
        run.explanation.complexity.algorithms[a] = "Recursive approach detected"

\* C20: recursion is reported exactly when the name of a defined function
\* appears again within that function's body; a source text without loops
\* whose functions never call themselves is estimated "O(1)" and gets no
\* recursion hint.
C20_RecursionOnlyWhenCallingItself ==
    \A run \in Runs :
        ast_parse(run.source).raised = "None" =>
            /\ RecursionHint(run) <=> Recursive(run.source)
            /\ (/\ LoopConstructs(run.source) = 0
                /\ FunctionDefs(run.source) # <<>>
                /\ ~Recursive(run.source))
               => /\ run.explanation.complexity.complexity = O_CONSTANT
                  /\ ~RecursionHint(run)

----------------------------------------------------------------------------
(* Claims about the editor's process                                       *)

\* C25: over the explain and function-info requests of one editor process the
\* embedding model is constructed at most once and the database is loaded at
\* most once; a request after the one that constructed it constructs nothing
C25_ModelConstructedAtMostOnce ==
    /\ host.models <= 1
    /\ host.loads <= 1
    /\ (host.models > host.last.models => host.last.models = 0)


----------------------------------------------------------------------------
(* Claims about the legacy decoder                                         *)

\* emission product times the table's probability of going from the state
\* chosen for the line before to state idx, in thousandths
TableScore(emissions, transitions, obs, prev_state_idx, idx) ==
    EmissionScore(emissions[idx], obs)
    * 10 * transitions[prev_state_idx][HIDDEN_VALUES[idx]]

\* C26: with a transition table supplied, the state emit gives every line
\* after the first has the greatest product of the line's emission
\* probabilities and the table's probability of the transition from the state
\* given to the line before
C26_TransitionTableDecides ==
    (decoded.called /\ decoded.transitions = transition_probabilities) =>
        \A k \in 2..Len(decoded.hidden_seq) :
            \E prev, idx \in 1..Len(HIDDEN_LABELS) :
                /\ decoded.hidden_seq[k - 1] = HIDDEN_LABELS[prev]
                /\ decoded.hidden_seq[k] = HIDDEN_LABELS[idx]
                /\ \A j \in 1..Len(HIDDEN_LABELS) :
                      TableScore(emission_probabilities, transition_probabilities,
                                 decoded.observations[k], prev, j)
                         <= TableScore(emission_probabilities, transition_probabilities,
                                       decoded.observations[k], prev, idx)

----------------------------------------------------------------------------
(* Claims about the database of the embedder                               *)

\* C28: whatever build_function_database and load_database calls were made on
\* the embedder, it holds as many embedding rows as function records, and row
\* i is the embedding of record i
C28_RowsMatchRecords ==
    /\ Len(embedder.embeddings.rows) = Len(embedder.function_database)
    /\ \A i \in 1..Len(embedder.function_database) :
          i <= Len(embedder.embeddings.rows)
             => embedder.embeddings.rows[i] = ModelEncode(embedder.function_database[i])

----------------------------------------------------------------------------

(* Claims about the bridged explanation                                    *)

\* What holds of one explanation view at every moment
ViewSettled(view) ==
    /\ Len(view.scheduled) <= 1
    /\ view.outcome # "" => Len(view.scheduled) = 1
    /\ view.outcome = "timed out" => view.killed
    /\ view.ran <= Len(view.scheduled)
    /\ view.ran > 0 =>
        /\ view.read_only
        /\ \A i \in 1..Len(view.text) : view.text[i] # WAIT_TEXT

\* The explanation of view i is over: its callback ran
Shown(i) ==
    /\ Len(bridge.views) >= i
    /\ bridge.views[i].ran = 1
    /\ bridge.views[i].read_only

\* C29: however the venv process of an explanation ends (exit code 0, another
\* exit code, no exit within the timeout, no start at all), _explain_async
\* schedules one callback on the view and no more, a process that timed out
\* was killed, and the callback does run, after which the view is read-only
\* and the text asking to wait is gone.
C29_OneCallbackSettlesTheView ==
    /\ [](\A i \in 1..Len(bridge.views) : ViewSettled(bridge.views[i]))
    /\ \A i \in 1..MaxViews : (Len(bridge.views) >= i) ~> Shown(i)

C29_Witness ==
    \E i \in 1..Len(bridge.views) :
        /\ bridge.views[i].outcome = "timed out"
        /\ bridge.views[i].killed
        /\ bridge.views[i].scheduled = <<"_show_error">>
        /\ bridge.views[i].ran = 1
        /\ bridge.views[i].read_only
        /\ bridge.views[i].text[1] # WAIT_TEXT

============================================================================
